---- MODULE Spec2Model ----
(***************************************************************************)
(* blkmon: monitoring of BGP autonomous systems for hostile hosts.         *)
(*                                                                         *)
(* The module models the orchestrator (blk_main.py), the global container  *)
(* (blk_state.py), the route-server session (blk_rteserv.py), the DNS      *)
(* lookup throttle (blk_wk_msg.py), the blocklist / whois readers          *)
(* (blk_rdblk.py) and the hostile-IP dictionary (blk_ipdict.py).           *)
(*                                                                         *)
(* Python strings are sequences of one-character strings, so that strip,   *)
(* join and the substring test "a in b" are computed as Python does.       *)
(***************************************************************************)
EXTENDS Integers, Sequences, FiniteSets, Bags, TLC

(***************************************************************************)
(* Strings                                                                 *)
(***************************************************************************)

\* cfg.SEP, the field separator " | "
SEP == <<" ", "|", " ">>

EmptyStr == << >>

IsSpace(c) == c \in {" ", "\t", "\r", "\n"}

IsDigit(c) == c \in {"0", "1", "2", "3", "4", "5", "6", "7", "8", "9"}

RECURSIVE lstrip(_)
lstrip(s) ==
    IF s = << >> THEN s
    ELSE IF IsSpace(Head(s)) THEN lstrip(Tail(s)) ELSE s

RECURSIVE rstrip(_)
rstrip(s) ==
    IF s = << >> THEN s
    ELSE IF IsSpace(s[Len(s)]) THEN rstrip(SubSeq(s, 1, Len(s) - 1)) ELSE s

\* str.strip()
strip(s) == rstrip(lstrip(s))

\* the Python substring test "a in b"
str_in(a, b) ==
    \E i \in 1..(Len(b) - Len(a) + 1) : SubSeq(b, i, i + Len(a) - 1) = a

\* cfg.SEP.join([a, b])
sep_join(a, b) == a \o SEP \o b

DigitsAt(s, i, n) == i + n - 1 <= Len(s) /\ \A k \in i..(i + n - 1) : IsDigit(s[k])

DotAt(s, i) == i <= Len(s) /\ s[i] = "."

\* re_ipv4.match(s): the pattern is anchored at the start of s only
re_ipv4_match(s) ==
    \E a \in 1..3, b \in 1..3, c \in 1..3, d \in 1..3 :
        /\ DigitsAt(s, 1, a)
        /\ DotAt(s, 1 + a)
        /\ DigitsAt(s, 2 + a, b)
        /\ DotAt(s, 2 + a + b)
        /\ DigitsAt(s, 3 + a + b, c)
        /\ DotAt(s, 3 + a + b + c)
        /\ DigitsAt(s, 4 + a + b + c, d)

(***************************************************************************)
(* Hostile-IP dictionary (blk_ipdict.py).  A dictionary is a function from *)
(* its keys to tuples <<as, cc, org, desc>> of strings.                    *)
(***************************************************************************)

EmptyDict == [k \in {} |-> << >>]

\* self.ip_dict[k] = v
dict_put(d, k, v) == [x \in (DOMAIN d) \cup {k} |-> IF x = k THEN v ELSE d[x]]

\* the update of one field of an existing element when a value is given and
\* the stored string may be empty (as_, cc)
merge_as(old, new) ==
    IF new = EmptyStr THEN old
    ELSE IF old = EmptyStr THEN new
    ELSE IF ~str_in(new, old) THEN sep_join(old, new)
    ELSE old

\* the update of a field that joins the value without looking for it first
merge_org_always(old, new) ==
    IF new = EmptyStr THEN old ELSE sep_join(old, new)

\* the update of one field of an existing element (org, desc)
merge_org(old, new) ==
    IF new = EmptyStr THEN old
    ELSE IF ~str_in(new, old) THEN sep_join(old, new)
    ELSE old

\* hostileIPs.insert_ip(__ip, desc, as_, org, cc)
insert_ip(d, ip, desc0, as_, org, cc) ==
    LET desc == strip(desc0) IN
    IF ip \in DOMAIN d
    THEN LET e == d[ip] IN
         dict_put(d, ip, << merge_as(e[1], as_),
                            merge_as(e[2], cc),
                            merge_org(e[3], org),
                            merge_org(e[4], desc) >>)
    ELSE IF ~(org # EmptyStr /\ re_ipv4_match(ip))
         THEN d
         ELSE dict_put(d, ip, << as_, cc, org, desc >>)

\* hostileIPs.insert_ip takes the branch that logs "Invalid input - ignored"
insert_ip_rejects(d, ip, org) ==
    /\ ip \notin DOMAIN d
    /\ ~(org # EmptyStr /\ re_ipv4_match(ip))

(***************************************************************************)
(* Configuration (cfg.py)                                                  *)
(***************************************************************************)

\* cfg.as_search_list: the monitored ASNs
as_search_list == << <<"7">>, <<"7", "1">> >>

\* cfg.rteserv_list: the public route servers, by position
rteserv_list == << "rs1", "rs2", "rs3" >>

\* cfg.rs_as_cmd_throttle
rs_as_cmd_throttle == 2

\* cfg.ip_prob_max
ip_prob_max == 3

\* cfg.sanity_ip and cfg.sanity_as
sanity_ip == <<"1", ".", "0", ".", "0", ".", "1">>

sanity_as == <<"7">>

\* cfg.cyrmu_max
cyrmu_max == 20

(***************************************************************************)
(* IPv4 addresses and networks (the ipaddr classes used by blk_rteserv.py  *)
(* and blk_tree.py).  A network is [net |-> first address, len |-> length].*)
(***************************************************************************)

DigitVal(c) ==
    CASE c = "0" -> 0 [] c = "1" -> 1 [] c = "2" -> 2 [] c = "3" -> 3
      [] c = "4" -> 4 [] c = "5" -> 5 [] c = "6" -> 6 [] c = "7" -> 7
      [] c = "8" -> 8 [] c = "9" -> 9

RECURSIVE str_to_int(_)
str_to_int(s) ==
    IF s = << >> THEN 0
    ELSE 10 * str_to_int(SubSeq(s, 1, Len(s) - 1)) + DigitVal(s[Len(s)])

\* str.split(c): the parts of s between the occurrences of the character c
split_chr(s, c) ==
    LET P == {k \in 1..Len(s) : s[k] = c}
        n == Cardinality(P)
        pos(j) == IF j = 0 THEN 0
                  ELSE IF j = n + 1 THEN Len(s) + 1
                  ELSE CHOOSE k \in P : Cardinality({m \in P : m < k}) = j - 1
    IN  [j \in 1..(n + 1) |-> SubSeq(s, pos(j - 1) + 1, pos(j) - 1)]

IsNumber(s, maxlen) ==
    Len(s) \in 1..maxlen /\ \A i \in 1..Len(s) : IsDigit(s[i])

NoAddr == -1

\* the value of the four parts of a dotted quad, NoAddr where ipaddr raises
quad_value(parts) ==
    IF /\ Len(parts) = 4
       /\ \A i \in 1..4 : IsNumber(parts[i], 3) /\ str_to_int(parts[i]) <= 255
    THEN ((str_to_int(parts[1]) * 256 + str_to_int(parts[2])) * 256
            + str_to_int(parts[3])) * 256 + str_to_int(parts[4])
    ELSE NoAddr

\* IPAddress(s): the value of a dotted quad, NoAddr where ipaddr raises
parse_ipv4(s) ==
    CHOOSE a \in {quad_value(parts) : parts \in {split_chr(s, ".")}} : TRUE

RECURSIVE pow2(_)
pow2(n) == IF n = 0 THEN 1 ELSE 2 * pow2(n - 1)

NoNet == [net |-> NoAddr, len |-> 0]

\* the network of an address part and an optional length part
net_value(parts) ==
    CHOOSE r \in
      { IF Len(parts) = 1
        THEN IF a = NoAddr THEN NoNet ELSE [net |-> a, len |-> 32]
        ELSE IF /\ Len(parts) = 2
                /\ a # NoAddr
                /\ IsNumber(parts[2], 2)
                /\ str_to_int(parts[2]) <= 32
             THEN LET l == str_to_int(parts[2])
                  IN  [net |-> (a \div pow2(32 - l)) * pow2(32 - l), len |-> l]
             ELSE NoNet : a \in {parse_ipv4(parts[1])} } : TRUE

\* IPNetwork(s): "a.b.c.d/len" or "a.b.c.d" (a /32), NoNet where ipaddr raises
IPNetwork(s) ==
    CHOOSE r \in {net_value(parts) : parts \in {split_chr(s, "/")}} : TRUE

\* IPNetwork.numhosts
numhosts(n) == pow2(32 - n.len)

\* "a in b" for two networks
net_in(a, b) ==
    /\ b.net <= a.net
    /\ a.net + numhosts(a) <= b.net + numhosts(b)

\* the supernet one bit shorter
supernet(n) ==
    [net |-> (n.net \div pow2(33 - n.len)) * pow2(33 - n.len), len |-> n.len - 1]

\* ipaddr.collapse_address_list, on the set of networks of the list: contained
\* networks are dropped and the two halves of a supernet are merged, until
\* neither applies
RECURSIVE collapse_set(_)
collapse_set(S) ==
    IF \E p \in S, q \in S : p # q /\ net_in(q, p)
    THEN LET q == CHOOSE q \in S : \E p \in S : p # q /\ net_in(q, p)
         IN  collapse_set(S \ {q})
    ELSE IF \E p \in S, q \in S :
                p # q /\ p.len = q.len /\ p.len > 0 /\ supernet(p) = supernet(q)
    THEN LET p == CHOOSE p \in S : \E q \in S :
                      p # q /\ p.len = q.len /\ p.len > 0
                      /\ supernet(p) = supernet(q)
         IN  collapse_set((S \ {x \in S : x.len = p.len /\ supernet(x) = supernet(p)})
                            \cup {supernet(p)})
    ELSE S

\* an aggregation that returns the networks of the list as they are
collapse_address_list_raw(lst) == {lst[i] : i \in 1..Len(lst)}

collapse_address_list(lst) == collapse_set({lst[i] : i \in 1..Len(lst)})

(***************************************************************************)
(* The binary lookup tree (blk_tree.py), held as its set of nodes          *)
(* [key |-> network, value |-> ASN].                                       *)
(***************************************************************************)

EmptyTree == {}

\* bbstree.insert(k, v): a node with key k gets the value v
tree_insert(t, k, v) ==
    {n \in t : n.key # k} \cup {[key |-> k, value |-> v]}

RECURSIVE tree_insert_all(_, _, _)
tree_insert_all(t, ks, v) ==
    IF ks = {} THEN t
    ELSE LET k == CHOOSE k \in ks : \A o \in ks : k.net <= o.net
         IN  tree_insert_all(tree_insert(t, k, v), ks \ {k}, v)

None == << "None" >>

\* the value of the longest key of the tree that contains the network a
\* (the trees kept as sets hold keys that do not overlap, so that at most one
\* key contains a; the search among keys that nest is bbstree_chk_ip)
chk_net(t, a) ==
    LET hits == {n \in t : a # NoNet /\ net_in(a, n.key)} IN
    IF hits = {} THEN None
    ELSE (CHOOSE n \in hits : \A o \in hits : n.key.len >= o.key.len).value

\* bbstree.chk_ip(my_ip): the node whose key contains the address, if any
chk_ip(t, x) ==
    CHOOSE v \in {chk_net(t, a) : a \in {IPNetwork(x)}} : TRUE

(***************************************************************************)
(* The binary lookup tree as blk_tree.py builds it: a node is a record     *)
(* [level, key, value, l, r] with the subtrees l = subs[0] and r = subs[1] *)
(***************************************************************************)

\* NIL_NODE: the node of level 0 that ends every branch
NIL_NODE == [level |-> 0]

\* bbsnode(k, v)
bbsnode(k, v) ==
    [level |-> 1, key |-> k, value |-> v, l |-> NIL_NODE, r |-> NIL_NODE]

\* t.subs[side], where NIL_NODE.subs = [NIL_NODE, NIL_NODE]
subs(t, side) ==
    IF t.level = 0 THEN NIL_NODE ELSE IF side THEN t.r ELSE t.l

\* "a > b" and "a == b" for two networks: by network address, then by mask
net_gt(a, b) == a.net > b.net \/ (a.net = b.net /\ a.len > b.len)

\* a __skew that leaves out the right subtree of the node rotated up
skew_drop(t) ==
    IF t.level # 0 /\ subs(t, FALSE).level = t.level
    THEN [t.l EXCEPT !.r = [t EXCEPT !.l = NIL_NODE]]
    ELSE t

\* bbstree.__skew(t)
skew(t) ==
    IF t.level # 0 /\ subs(t, FALSE).level = t.level
    THEN [t.l EXCEPT !.r = [t EXCEPT !.l = t.l.r]]
    ELSE t

\* bbstree.__split(t)
split(t) ==
    IF t.level # 0 /\ t.level = subs(subs(t, TRUE), TRUE).level
    THEN [t.r EXCEPT !.l = [t EXCEPT !.r = t.r.l], !.level = @ + 1]
    ELSE t

\* tnode with its subtree on the side replaced by sub
set_sub(tnode, side, sub) ==
    IF side THEN [tnode EXCEPT !.r = sub] ELSE [tnode EXCEPT !.l = sub]

\* bbstree.__insert(tnode, k, v)
RECURSIVE bbs_insert(_, _, _)
bbs_insert(tnode, k, v) ==
    IF k = tnode.key THEN [tnode EXCEPT !.value = v]
    ELSE CHOOSE x \in
           { IF sub.level # 0
             THEN set_sub(tnode, side, split(skew(bbs_insert(sub, k, v))))
             ELSE set_sub(tnode, side, bbsnode(k, v)) :
               side \in {net_gt(k, tnode.key)},
               sub \in {subs(tnode, net_gt(k, tnode.key))} } : TRUE

\* the nodes of a tree
RECURSIVE nodes_of(_)
nodes_of(t) ==
    IF t.level = 0 THEN {} ELSE {t} \cup nodes_of(t.l) \cup nodes_of(t.r)

\* an insert that leaves a key it finds in the tree with its first value
bbstree_insert_keep(t, k, v) ==
    IF t.level # 0
    THEN IF \E n \in nodes_of(t) : n.key = k THEN t
         ELSE CHOOSE x \in {split(skew(y)) : y \in {bbs_insert(t, k, v)}} : TRUE
    ELSE bbsnode(k, v)

\* bbstree.insert(k, v) on the tree with the root t: the new root
bbstree_insert(t, k, v) ==
    IF t.level # 0
    THEN CHOOSE x \in {split(skew(y)) : y \in {bbs_insert(t, k, v)}} : TRUE
    ELSE bbsnode(k, v)

\* the node that __delete reaches by "heir = heir.subs[1]" from the node t
RECURSIVE heir_of(_)
heir_of(t) == IF t.r.level = 0 THEN t ELSE heir_of(t.r)

\* a rebalance that lowers no level and rotates nothing
rebalance_off(t) == t

\* the end of bbstree.__delete: the level of the node is lowered when a
\* subtree is more than one level below it, then three skews and two splits
rebalance(t) ==
    IF t.level = 0 THEN t
    ELSE IF t.l.level < t.level - 1 \/ t.r.level < t.level - 1
    THEN LET lv == t.level - 1
             t1 == [t EXCEPT !.level = lv,
                             !.r = IF @.level > lv THEN [@ EXCEPT !.level = lv]
                                   ELSE @]
             t2 == skew(t1)
             t3 == IF t2.r.level = 0 THEN t2 ELSE [t2 EXCEPT !.r = skew(@)]
             t4 == IF t3.r.level = 0 THEN t3
                   ELSE IF t3.r.r.level = 0 THEN t3
                   ELSE [t3 EXCEPT !.r.r = skew(@)]
             t5 == split(t4)
         IN  IF t5.r.level = 0 THEN t5 ELSE [t5 EXCEPT !.r = split(@)]
    ELSE t

\* bbstree.__delete(tnode, k)
RECURSIVE bbs_delete(_, _)
bbs_delete(tnode, k) ==
    IF tnode.level = 0 THEN tnode
    ELSE IF k = tnode.key
    THEN IF tnode.l.level # 0 /\ tnode.r.level # 0
         THEN CHOOSE x \in
                { rebalance([tnode EXCEPT !.key = heir.key,
                                          !.value = heir.value,
                                          !.l = bbs_delete(@, heir.key)]) :
                    heir \in {heir_of(tnode.l)} } : TRUE
         ELSE rebalance(subs(tnode, tnode.l.level = 0))
    ELSE CHOOSE x \in
           { rebalance(set_sub(tnode, side, bbs_delete(subs(tnode, side), k))) :
               side \in {net_gt(k, tnode.key)} } : TRUE

\* bbstree.delete(k) on the tree with the root t: the new root
bbstree_delete(t, k) == IF t.level # 0 THEN bbs_delete(t, k) ELSE t

\* bbstree.forward(): the nodes in the order __scan yields them, left
\* subtree, node, right subtree
RECURSIVE forward(_)
forward(t) ==
    IF t.level = 0 THEN << >> ELSE forward(t.l) \o << t >> \o forward(t.r)

\* bbstree.height()
height(t) == t.level

\* bbstree.__chk_ip(tnode, my_ip) with a = IPNetwork(my_ip), and
\* bbstree.chk_ip on an empty tree: the set that holds the node returned,
\* the empty set where None is returned
RECURSIVE bbstree_chk_ip(_, _)
bbstree_chk_ip(tnode, a) ==
    IF tnode.level = 0 THEN {}
    ELSE IF net_in(a, tnode.key) THEN {tnode}
    ELSE bbstree_chk_ip(subs(tnode, net_gt(a, tnode.key)), a)

(***************************************************************************)
(* The line reader of the whois connection (BulkDataProtocol, blk_rdblk.py)*)
(***************************************************************************)

CR == "\r"

LF == "\n"

\* cfg.DELIM
DELIM == << CR, LF >>

\* BulkDataProtocol.MAX_LENGTH
MAX_LENGTH == 16384

\* no route server that is followed
NoServer == [cur |-> 0, left |-> << >>, got |-> {}]

\* no BulkDataProtocol alone
NoStream == [rest |-> << >>, buffer |-> << >>, lines |-> << >>, stream |-> << >>]

\* re.sub(r"(\r\n|\n)", cfg.DELIM, data)
RECURSIVE normalize(_)
normalize(data) ==
    IF data = << >> THEN << >>
    ELSE IF Len(data) >= 2 /\ data[1] = CR /\ data[2] = LF
    THEN DELIM \o normalize(SubSeq(data, 3, Len(data)))
    ELSE IF data[1] = LF
    THEN DELIM \o normalize(Tail(data))
    ELSE << data[1] >> \o normalize(Tail(data))

\* s.split(cfg.DELIM)
RECURSIVE split_delim(_)
split_delim(s) ==
    LET P == {k \in 1..(Len(s) - 1) : s[k] = CR /\ s[k + 1] = LF} IN
    IF P = {} THEN << s >>
    ELSE CHOOSE r \in
           { << SubSeq(s, 1, k - 1) >> \o split_delim(SubSeq(s, k + 2, Len(s))) :
               k \in {CHOOSE k \in P : \A o \in P : k <= o} } : TRUE

\* the lines of the list that are not longer than MAX_LENGTH
RECURSIVE deliverable(_)
deliverable(lines) ==
    IF lines = << >> THEN << >>
    ELSE (IF Len(Head(lines)) > MAX_LENGTH THEN << >> ELSE << Head(lines) >>)
           \o deliverable(Tail(lines))

\* BulkDataProtocol.dataReceived(data) on the protocol p: the new buffer and
\* the lines handed to lineReceived, after those handed over before
dataReceived(p, data) ==
    CHOOSE r \in
      { [p EXCEPT !.buffer = lines[Len(lines)],
                  !.lines = @ \o deliverable(SubSeq(lines, 1, Len(lines) - 1))] :
          lines \in {split_delim(p.buffer \o normalize(data))} } : TRUE

(***************************************************************************)
(* Bounds of the model                                                     *)
(***************************************************************************)

\* route-server sessions started in one behaviour
MaxRefresh == 1

\* networks collected for one ASN before the next command prompt is counted
MaxAddrs == 1

\* host names of one blocklist body in the DNS throttle specification
MaxHosts == 32

\* calls applied to one registry in the registry specification
MaxCalls == 2

(***************************************************************************)
(* State                                                                   *)
(***************************************************************************)

VARIABLES
    mytree,        \* BlkState.mytree: 0 for None, else an index into trees
    mydict,        \* BlkState.mydict: the hostile-IP dictionary (None before the first cycle)
    my_rte_srv,    \* BlkState.my_rte_srv, 0-based position in rteserv_list
    ip_prob_cnt,   \* BlkState.ip_prob_cnt
    trees,         \* the bbstree objects allocated so far, by index
    tn,            \* the telnet session: TelnetFactory and TelnetClient fields
    sent,          \* the commands written to the route server in this session
    ended,         \* how the last session ended
    rs_lines,      \* input: the lines the route server may send
    pc,            \* where the ingest cycle stands
    fetch,         \* per blocklist: the state of its download
    bodies,        \* input: the body served for each blocklist
    num_x,         \* WorkerService.num_x
    num_wait,      \* WorkerService.num_wait
    inflight,      \* bag of the getHostByName calls not yet answered
    waitq,         \* bag of the deferLater timers of do_lookup not yet fired
    wh,            \* the bulk whois session
    status,        \* the last message given to WorkerService.set_status
    hist,          \* observations of the cycle, for the properties
    regA, regB,    \* two registries receiving the same calls in two orders
    regCalls,      \* input: the calls, as a sequence
    leftA, leftB,  \* the positions of regCalls not yet applied to regA, regB
    root,          \* bbstree.root of a tree that receives insert calls alone
    inserted,      \* the (prefix, ASN) pairs given to the insert calls on root
    bd,            \* a BulkDataProtocol alone: the data still to arrive (rest),
                   \* its buffer, the lines handed to lineReceived (lines), and
                   \* the whole data of the connection (stream)
    srv,           \* a route server that answers the commands in their order: the
                   \* position in sent of the command it answers (cur), the
                   \* route lines of that listing still to come (left), and the
                   \* route lines received with the ASN they were listed for (got)
    prompts        \* history: the command prompts received with state_more set
                   \* since the last command was sent to the route server

bvars   == << mytree, mydict, my_rte_srv, ip_prob_cnt, trees >>
svars   == << tn, sent, ended, rs_lines >>
cvars   == << pc, fetch, bodies, wh, status, hist >>
pvars   == << num_x, num_wait, inflight, waitq >>
tvars   == << root, inserted >>
hvars   == << prompts, bd, srv >>
rvars   == << regA, regB, regCalls, leftA, leftB, tvars, hvars >>
vars    == << bvars, svars, cvars, pvars, rvars >>

(***************************************************************************)
(* BlkState (blk_state.py)                                                 *)
(***************************************************************************)

\* BlkState.init_tree: the value stored in self.mytree, given the new tree
init_tree(old, new) == new

\* BlkState.get_tree
get_tree == mytree

\* BlkState.get_next_rte_srv: the new value of self.my_rte_srv
get_next_rte_srv(cur) ==
    IF cur + 1 = Len(rteserv_list) THEN 0 ELSE cur + 1

\* BlkState.bump_ip_prob_cnt: the new counter and the returned flag
bump_ip_prob_cnt(cnt) ==
    LET exceeded == (cnt + 1 >= ip_prob_max) IN
    [cnt |-> IF exceeded THEN 0 ELSE cnt + 1, exceeded |-> exceeded]

\* a blk_check_ip that reads the address up to a ":" that follows it
blk_check_ip_lenient(x, t) ==
    IF t = 0 THEN None ELSE chk_ip(trees[t], split_chr(x, ":")[1])

\* blk_check_ip(x, mytree): None when the lookup raises (no tree, bad address)
blk_check_ip(x, t) ==
    IF t = 0 THEN None ELSE chk_ip(trees[t], x)

(***************************************************************************)
(* Route-server session (blk_rteserv.py).  A received line is the sequence *)
(* of its whitespace-separated tokens, line.split().                       *)
(***************************************************************************)

prompt_cmd == <<">">>

prompt_more == <<"-", "-", "M", "o", "r", "e", "-", "-">>

valid_route == <<"*">>

startswith(s, pre) == Len(pre) <= Len(s) /\ SubSeq(s, 1, Len(pre)) = pre

endswith(s, suf) ==
    Len(suf) <= Len(s) /\ SubSeq(s, Len(s) - Len(suf) + 1, Len(s)) = suf

\* the lines of the route server
LinePrompt == << <<"r", "s", ">">> >>

LineMore == << prompt_more >>

LineRoute(net) == << <<"*", ">">>, net, <<"0">> >>

Net1 == <<"1", ".", "0", ".", "0", ".", "0", "/", "2", "5">>

Net2 == <<"1", ".", "0", ".", "0", ".", "1", "2", "8", "/", "2", "5">>

\* a session that does not exist
NoSession ==
    [st |-> "none", Tree |-> 0, as_ptr |-> -1, cmd_prompt_cnt |-> 0,
     state_more |-> FALSE, my_addr_list |-> << >>]

\* a factory whose ASN pointer starts at the first ASN
NewSession_first(t) ==
    [st |-> "connecting", Tree |-> t, as_ptr |-> 0, cmd_prompt_cnt |-> 0,
     state_more |-> FALSE, my_addr_list |-> << >>]

\* TelnetFactory.__init__ and TelnetClient.__init__
NewSession(t) ==
    [st |-> "connecting", Tree |-> t, as_ptr |-> -1, cmd_prompt_cnt |-> 0,
     state_more |-> FALSE, my_addr_list |-> << >>]

\* TelnetClient.processAddr: the new working list
processAddr(lst, myIP) ==
    LET myaddr == IPNetwork(myIP) IN
    IF myaddr = NoNet THEN lst
    ELSE IF numhosts(myaddr) = 1 THEN lst
    ELSE Append(lst, myaddr)

\* the list command of an ASN, cfg.RTESRV_CMD with the ASN substituted
ListCmd(asn) == [cmd |-> "list", asn |-> asn]

ExitCmd == [cmd |-> "exit", asn |-> << >>]

\* as_search_list[i] for a Python index: -1 is the last element
py_index(lst, i) == IF i < 0 THEN lst[Len(lst) + i + 1] ELSE lst[i + 1]

\* a build_send_rteserv_cmd that tags the networks with the ASN of the
\* command it is about to send
build_send_rteserv_cmd_next(s, t, out) ==
    IF s.cmd_prompt_cnt > 0
    THEN [tn |-> [s EXCEPT !.cmd_prompt_cnt = @ - 1],
          tree |-> t, sent |-> out, raised |-> FALSE]
    ELSE LET collapsed == collapse_address_list(s.my_addr_list)
             s1 == [s EXCEPT !.cmd_prompt_cnt = rs_as_cmd_throttle,
                             !.my_addr_list = << >>]
         IN  IF s.as_ptr >= Len(as_search_list)
             THEN [tn |-> s1, tree |-> t, sent |-> out, raised |-> TRUE]
             ELSE LET myas == py_index(as_search_list, (s.as_ptr + 1) % Len(as_search_list))
                      t1   == tree_insert_all(t, collapsed, myas)
                      ptr  == s.as_ptr + 1
                      cmd  == IF ptr >= Len(as_search_list)
                              THEN ExitCmd
                              ELSE ListCmd(as_search_list[ptr + 1])
                  IN  [tn |-> [s1 EXCEPT !.as_ptr = ptr],
                       tree |-> t1, sent |-> Append(out, cmd), raised |-> FALSE]

\* TelnetClient.build_send_rteserv_cmd on the session s with the nodes t of
\* its tree and the commands out written so far; raised tells that the read
\* of as_search_list raised IndexError
build_send_rteserv_cmd(s, t, out) ==
    IF s.cmd_prompt_cnt > 0
    THEN [tn |-> [s EXCEPT !.cmd_prompt_cnt = @ - 1],
          tree |-> t, sent |-> out, raised |-> FALSE]
    ELSE LET collapsed == collapse_address_list(s.my_addr_list)
             s1 == [s EXCEPT !.cmd_prompt_cnt = rs_as_cmd_throttle,
                             !.my_addr_list = << >>]
         IN  IF s.as_ptr >= Len(as_search_list)
             THEN [tn |-> s1, tree |-> t, sent |-> out, raised |-> TRUE]
             ELSE LET myas == py_index(as_search_list, s.as_ptr)
                      t1   == tree_insert_all(t, collapsed, myas)
                      ptr  == s.as_ptr + 1
                      cmd  == IF ptr >= Len(as_search_list)
                              THEN ExitCmd
                              ELSE ListCmd(as_search_list[ptr + 1])
                  IN  [tn |-> [s1 EXCEPT !.as_ptr = ptr],
                       tree |-> t1, sent |-> Append(out, cmd), raised |-> FALSE]

\* TelnetClient.lineReceived
lineReceived(s, t, out, tokens) ==
    IF Len(tokens) = 0
    THEN [tn |-> s, tree |-> t, sent |-> out, raised |-> FALSE]
    ELSE LET r == IF s.state_more /\ endswith(tokens[Len(tokens)], prompt_cmd)
                  THEN build_send_rteserv_cmd(s, t, out)
                  ELSE [tn |-> s, tree |-> t, sent |-> out, raised |-> FALSE]
         IN  IF r.raised THEN r
             ELSE IF tokens[1] = prompt_more
             THEN [r EXCEPT !.tn.state_more = TRUE]
             ELSE IF startswith(tokens[1], valid_route)
             THEN IF Len(tokens) < 2
                  THEN [r EXCEPT !.raised = TRUE]
                  ELSE IF Len(tokens[2]) > 1
                  THEN LET myIP == IF startswith(tokens[2], <<"i">>)
                                   THEN Tail(tokens[2]) ELSE tokens[2]
                       IN  [r EXCEPT !.tn.my_addr_list = processAddr(@, myIP)]
                  ELSE r
             ELSE r

SessionActive == tn.st \in {"connecting", "connected"}

\* read_rtesrv(bstate, myhost): a new tree is allocated and stored in bstate,
\* the factory is built on it and the connection is started
read_rtesrv ==
    LET new == Len(trees) + 1 IN
    /\ trees' = Append(trees, EmptyTree)
    /\ mytree' = init_tree(mytree, new)
    /\ tn' = NewSession(new)
    /\ sent' = << >>
    /\ ended' = "none"

\* blk_rteserv_read(bstate), called when the refresh interval has elapsed
blk_rteserv_read ==
    /\ ~SessionActive
    /\ Len(trees) < MaxRefresh
    /\ my_rte_srv' = get_next_rte_srv(my_rte_srv)
    /\ read_rtesrv
    /\ UNCHANGED << mydict, ip_prob_cnt, rs_lines, cvars, pvars, rvars >>

\* TelnetFactory.clientConnectionFailed, then rtesrv_failed
clientConnectionFailed ==
    /\ tn.st = "connecting"
    /\ tn' = [tn EXCEPT !.st = "none"]
    /\ ended' = "failed"
    /\ UNCHANGED << bvars, sent, rs_lines, cvars, pvars, rvars >>

\* TelnetClient.connectionMade
connectionMade ==
    /\ tn.st = "connecting"
    /\ LET r == build_send_rteserv_cmd([tn EXCEPT !.st = "connected"],
                                       trees[tn.Tree], sent)
       IN  /\ tn' = r.tn
           /\ trees' = [trees EXCEPT ![tn.Tree] = r.tree]
           /\ sent' = r.sent
    /\ UNCHANGED << mytree, mydict, my_rte_srv, ip_prob_cnt, ended, rs_lines,
                    cvars, pvars, rvars >>

\* one line arrives; an exception raised by the handler drops the connection
RsLineReceived ==
    /\ tn.st = "connected"
    /\ \E tokens \in rs_lines :
        LET r == lineReceived(tn, trees[tn.Tree], sent, tokens) IN
        /\ Len(r.tn.my_addr_list) <= MaxAddrs
        /\ tn' = IF r.raised THEN [r.tn EXCEPT !.st = "none"] ELSE r.tn
        /\ ended' = IF r.raised THEN "lost" ELSE ended
        /\ trees' = [trees EXCEPT ![tn.Tree] = r.tree]
        /\ sent' = r.sent
    /\ UNCHANGED << mytree, mydict, my_rte_srv, ip_prob_cnt, rs_lines,
                    cvars, pvars, rvars >>

\* TelnetClient.connectionLost, then rtesrv_failed: the server closed the
\* connection (clean) or the connection broke
connectionLost ==
    /\ tn.st = "connected"
    /\ \E clean \in BOOLEAN :
        ended' = IF clean THEN "clean" ELSE "lost"
    /\ tn' = [tn EXCEPT !.st = "none"]
    /\ UNCHANGED << bvars, sent, rs_lines, cvars, pvars, rvars >>

(***************************************************************************)
(* DNS lookup throttle (WorkerService in blk_wk_msg.py).  A pool is the    *)
(* record of the two counters with the bags of the calls to getHostByName  *)
(* that are not yet answered and of the deferLater timers not yet fired.   *)
(***************************************************************************)

\* WorkerService.max_x
max_x == 30

max0(n) == IF n > 0 THEN n ELSE 0

BagAdd(b, e) == b (+) SetToBag({e})

BagDel(b, e) == b (-) SetToBag({e})

\* lkps_in_progress that looks at the active lookups only
lkps_active_only(nx, nw) == nx > 0

\* WorkerService.lkps_in_progress
lkps_in_progress(nx, nw) == nx > 0 \/ nw > 0

Request(name, desc, org) == [name |-> name, desc |-> desc, org |-> org]

\* do_lookup that admits a lookup while num_x <= max_x
do_lookup_le(p, req, flag) ==
    LET p1 == IF flag THEN [p EXCEPT !.num_wait = max0(@ - 1)] ELSE p IN
    IF p1.num_x <= max_x
    THEN [p1 EXCEPT !.num_x = @ + 1, !.inflight = BagAdd(@, req)]
    ELSE [p1 EXCEPT !.num_wait = @ + 1, !.waitq = BagAdd(@, req)]

\* do_lookup that does not take a retried request off the wait count
do_lookup_nodec(p, req, flag) ==
    IF p.num_x < max_x
    THEN [p EXCEPT !.num_x = @ + 1, !.inflight = BagAdd(@, req)]
    ELSE [p EXCEPT !.num_wait = @ + 1, !.waitq = BagAdd(@, req)]

\* WorkerService.do_lookup(name, flag, mydesc, myorg) on the pool p
do_lookup(p, req, flag) ==
    LET p1 == IF flag THEN [p EXCEPT !.num_wait = max0(@ - 1)] ELSE p IN
    IF p1.num_x < max_x
    THEN [p1 EXCEPT !.num_x = @ + 1, !.inflight = BagAdd(@, req)]
    ELSE [p1 EXCEPT !.num_wait = @ + 1, !.waitq = BagAdd(@, req)]

Pool == [num_x |-> num_x, num_wait |-> num_wait,
         inflight |-> inflight, waitq |-> waitq]

SetPool(p) ==
    /\ num_x' = p.num_x
    /\ num_wait' = p.num_wait
    /\ inflight' = p.inflight
    /\ waitq' = p.waitq

\* the lookups that are really under way or waiting
PoolBusy == BagCardinality(inflight) > 0 \/ BagCardinality(waitq) > 0

(***************************************************************************)
(* Blocklist line parser (hostileIPs.insert_blklst_line)                   *)
(***************************************************************************)

PAT_HTTP == <<"h", "t", "t", "p">>

PAT_FTP == <<"f", "t", "p">>

PAT_ACL == <<"d", "e", "n", "y", " ">>

UpperChars == << "A", "B", "C", "D", "E", "F", "G", "H", "I", "J", "K", "L", "M",
                 "N", "O", "P", "Q", "R", "S", "T", "U", "V", "W", "X", "Y", "Z" >>

LowerChars == << "a", "b", "c", "d", "e", "f", "g", "h", "i", "j", "k", "l", "m",
                 "n", "o", "p", "q", "r", "s", "t", "u", "v", "w", "x", "y", "z" >>

lower_chr(c) ==
    IF \E i \in 1..26 : UpperChars[i] = c
    THEN LowerChars[CHOOSE i \in 1..26 : UpperChars[i] = c]
    ELSE c

\* str.lower()
lower(s) == [i \in 1..Len(s) |-> lower_chr(s[i])]

IsSchemeChr(c) ==
    \/ IsDigit(c)
    \/ c \in {"+", "-", "."}
    \/ \E i \in 1..26 : c = UpperChars[i] \/ c = LowerChars[i]

\* the position of the first character of s that is in the set cs, 0 if none
find_first(s, cs) ==
    IF \E i \in 1..Len(s) : s[i] \in cs
    THEN CHOOSE i \in 1..Len(s) : s[i] \in cs /\ \A k \in 1..(i - 1) : s[k] \notin cs
    ELSE 0

\* the netloc of a URL without its scheme: what follows "//" up to "/", "?", "#"
url_netloc(body) ==
    LET after == SubSeq(body, 3, Len(body))
        delim == find_first(after, {"/", "?", "#"})
    IN  IF startswith(body, <<"/", "/">>)
        THEN IF delim = 0 THEN after ELSE SubSeq(after, 1, delim - 1)
        ELSE << >>

\* urlsplit with the first ":" of the URL at position i (0 if none)
url_split(url, i) ==
    LET pre    == SubSeq(url, 1, i - 1)
        rest   == SubSeq(url, i + 1, Len(url))
        isport == rest # << >> /\ \A k \in 1..Len(rest) : IsDigit(rest[k])
        hasscheme ==
            /\ i > 1
            /\ \/ pre = PAT_HTTP
               \/ (\A k \in 1..Len(pre) : IsSchemeChr(pre[k])) /\ ~isport
    IN  [scheme |-> IF hasscheme THEN lower(pre) ELSE << >>,
         netloc |-> url_netloc(IF hasscheme THEN rest ELSE url)]

\* urlparse(line): the scheme and the netloc
urlparse(url) ==
    CHOOSE r \in {url_split(url, i) : i \in {find_first(url, {":"})}} : TRUE

\* the length of the longest prefix of s without white space: (\S+)
nonspace_len(s) ==
    LET i == find_first(s, {" ", "\t", "\r", "\n"}) IN
    IF i = 0 THEN Len(s) ELSE i - 1

\* re_addr.match(line): (?P<addr>\S+)\s*(?P<desc>.*$)
re_addr(line) ==
    LET n == nonspace_len(line) IN
    [ok |-> n > 0, addr |-> SubSeq(line, 1, n),
     desc |-> lstrip(SubSeq(line, n + 1, Len(line)))]

\* re_acl.match(line) where the address, from position 14, has n characters
re_acl_at(line, n) ==
    LET head == <<"d", "e", "n", "y">>
        w2   == <<"i", "p">>
        w3   == <<"h", "o", "s", "t">>
        tl   == <<"a", "n", "y">>
        w5   == <<"l", "o", "g">>
        \* a fixed word followed by one white space character, at position i
        word(i, w) == /\ i + Len(w) <= Len(line)
                      /\ SubSeq(line, i, i + Len(w) - 1) = w
                      /\ IsSpace(line[i + Len(w)])
        a0   == 14
        b0   == a0 + n + 1
        ok   == /\ word(1, head) /\ word(6, w2) /\ word(9, w3)
                /\ n > 0
                /\ a0 + n <= Len(line) /\ IsSpace(line[a0 + n])
                /\ word(b0, tl)
                /\ b0 + 6 <= Len(line)
                /\ SubSeq(line, b0 + 4, b0 + 6) = w5
    IN  [ok |-> ok, addr |-> SubSeq(line, a0, a0 + n - 1),
         desc |-> lstrip(SubSeq(line, b0 + 7, Len(line)))]

\* re_acl.match(line): deny\sip\shost\s(?P<addr>\S+)\sany\slog\s*(?P<desc>.*$)
re_acl(line) ==
    CHOOSE m \in {re_acl_at(line, n) :
                     n \in {nonspace_len(SubSeq(line, 14, Len(line)))}} : TRUE

\* what one line of a blocklist does: act is "insert" (insert_ip of addr),
\* "dns" (do_lookup of addr), "none" (nothing), "unknown" (the final
\* catch-all case) or "raise" (the assertion fails)
line_act(a, addr, desc) == [act |-> a, addr |-> addr, desc |-> desc]

NoAct == line_act("none", << >>, << >>)

\* insert_blklst_line, the branch of a line that starts with "http" or "ftp"
url_line(line, uri) ==
    IF uri.scheme \in {PAT_HTTP, PAT_HTTP \o <<"s">>, PAT_FTP}
    THEN IF re_ipv4_match(uri.netloc)
         THEN line_act("insert", uri.netloc, line)
         ELSE line_act("dns", uri.netloc, line)
    ELSE NoAct

\* insert_blklst_line, the branch of a line that starts with "deny "
acl_line(m) ==
    IF m.ok
    THEN IF re_ipv4_match(m.addr)
         THEN line_act("insert", m.addr, m.desc)
         ELSE line_act("raise", m.addr, m.desc)
    ELSE NoAct

\* insert_blklst_line, the branch of any other line
addr_line(m) ==
    IF m.addr = << >> THEN line_act("unknown", << >>, << >>)
    ELSE IF re_ipv4_match(m.addr)
    THEN line_act("insert", m.addr, m.desc)
    ELSE line_act("dns", m.addr, m.desc)

\* the levels of cfg.debug and the level of the configuration
DEBUG_OFF == 0

DEBUG_VERBOSE == 3

debug == DEBUG_OFF

\* the line of action a writes the log entry "line ignored, unknown format"
unknown_logged(a) == a.act = "unknown" /\ debug >= DEBUG_VERBOSE

\* insert_blklst_line on the stripped line
classify_line(line) ==
    IF line = << >> THEN NoAct
    ELSE IF line[1] \in {"#", "!"} THEN NoAct
    ELSE IF startswith(line, PAT_HTTP) \/ startswith(line, PAT_FTP)
    THEN CHOOSE a \in {url_line(line, uri) : uri \in {urlparse(line)}} : TRUE
    ELSE IF startswith(line, PAT_ACL)
    THEN CHOOSE a \in {acl_line(m) : m \in {re_acl(line)}} : TRUE
    ELSE CHOOSE a \in {addr_line(m) : m \in {re_addr(line)}} : TRUE

\* hostileIPs.insert_blklst_line(line, myorg, dns_lookup_fn)
insert_blklst_line(line0) ==
    CHOOSE a \in {classify_line(line) : line \in {strip(line0)}} : TRUE

(***************************************************************************)
(* Blocklist download (blk_rdblk.py) and the ingest cycle (blk_main.py)    *)
(***************************************************************************)

\* cfg.blklist_urls: the tags of the blocklists, by position
blklist_urls == << <<"d">>, <<"z">> >>

Urls == 1..Len(blklist_urls)

\* the names bound in the module blk_main: its imports and its functions
blk_main_names ==
    { "get_blklst", "cymru_get_whois", "blk_check_ip", "BlkState", "cfg",
      "defer", "reactor", "log",
      "read_blklsts", "blklsts_done", "cymru_chk", "cymru_done", "blklst_Main" }

NoDict == << "None" >>

NoWhois == [st |-> "none", req |-> {}]

NoStatus == [msg |-> "none", recs |-> {}]

InitHist ==
    [ chk_tree |-> 0, chk_nodes |-> {}, chk_partial |-> FALSE,
      scan_tree |-> 0, scan_nodes |-> {}, scan_busy |-> FALSE, scanned |-> FALSE,
      polled |-> FALSE, queued |-> FALSE, done_cnt |-> 0, done_early |-> FALSE,
      retries |-> 0, last_retries |-> 0, last_main |-> "none" ]

\* one line of the page with the parser's action a, on r = [dict, pool, raised]
page_line(r, a, org) ==
    [dict   |-> IF a.act = "insert"
                THEN insert_ip(r.dict, a.addr, a.desc, EmptyStr, org, EmptyStr)
                ELSE r.dict,
     pool   |-> IF a.act = "dns"
                THEN do_lookup(r.pool, Request(a.addr, a.desc, org), FALSE)
                ELSE r.pool,
     raised |-> a.act = "raise"]

\* blklst_page_read_ok: the lines of the page in order, on the dictionary and
\* the pool of r; an assertion that fails ends the loop
RECURSIVE page_lines(_, _, _)
page_lines(r, lines, org) ==
    IF lines = << >> \/ r.raised THEN r
    ELSE CHOOSE x \in
           { page_lines(r1, rest, org) :
               r1 \in {page_line(r, a, org) :
                         a \in {insert_blklst_line(Head(lines))}},
               rest \in {Tail(lines)} } : TRUE

\* the keys of the dictionary that the tree places in a monitored ASN
Hits(d, t) == {ip \in DOMAIN d : blk_check_ip(ip, t) # None}

\* a DeferredList that fires on the first result
one_settled(f) == \E u \in Urls : f[u] \in {"ok", "err"}

\* the DeferredList of read_blklsts fires when every download has a result
all_settled(f) == \A u \in Urls : f[u] \in {"ok", "err"}

\* hostileIPs.list_grp(as_=a): the elements whose as field contains a
list_grp_as(d, a) == {ip \in DOMAIN d : str_in(a, d[ip][1])}

\* hostileIPs.list_grp(as_, org, cc): the keys of the elements it yields
list_grp(d, as_, org, cc) ==
    {ip \in DOMAIN d :
        /\ as_ = EmptyStr \/ str_in(as_, d[ip][1])
        /\ org = EmptyStr \/ str_in(org, d[ip][3])
        /\ cc = EmptyStr \/ str_in(cc, d[ip][2])}

\* the status message of cymru_done: per monitored ASN the listed elements
report_recs(d) ==
    UNION { { << as_search_list[i], ip, d[ip] >> :
                  ip \in list_grp_as(d, as_search_list[i]) } :
            i \in 1..Len(as_search_list) }

\* cymru_chk that starts the whois session whenever the registry has a record
cymru_chk_any(d, p, req) ==
    IF lkps_in_progress(p.num_x, p.num_wait)
    THEN [pc |-> "dnswait", wh |-> NoWhois, status |-> status,
          scanned |-> FALSE]
    ELSE IF DOMAIN d # {}
    THEN [pc |-> "whois", wh |-> [st |-> "connecting", req |-> req],
          status |-> status, scanned |-> TRUE]
    ELSE [pc |-> "idle", wh |-> NoWhois,
          status |-> [msg |-> "nohostile", recs |-> {}], scanned |-> TRUE]

\* cymru_chk(bstate) with the dictionary d and the counters of the pool p:
\* the next step of the cycle and what was observed
cymru_chk(d, p, req) ==
    IF lkps_in_progress(p.num_x, p.num_wait)
    THEN [pc |-> "dnswait", wh |-> NoWhois, status |-> status,
          scanned |-> FALSE]
    ELSE IF req # {}
    THEN [pc |-> "whois", wh |-> [st |-> "connecting", req |-> req],
          status |-> status, scanned |-> TRUE]
    ELSE [pc |-> "idle", wh |-> NoWhois,
          status |-> [msg |-> "nohostile", recs |-> {}], scanned |-> TRUE]

\* the subsets of h that leave out n of its elements
RECURSIVE leave_out(_, _)
leave_out(h, n) ==
    IF n = 0 THEN {h}
    ELSE UNION { leave_out(h \ {x}, n - 1) : x \in h }

\* the sets of addresses cymru_chk may put in the request, given the hits h:
\* every hit while the count is not above cyrmu_max, in the order of the
\* dictionary
request_sets(h) ==
    IF Cardinality(h) <= cyrmu_max + 1 THEN {h}
    ELSE leave_out(h, Cardinality(h) - (cyrmu_max + 1))

\* cfg.CYMRU_CMD_FIRST and cfg.CYMRU_CMD_LAST, as lines
CYMRU_CMD_FIRST == << <<"b", "e", "g", "i", "n", " ">>,
                      <<"c", "o", "u", "n", "t", "r", "y", "c", "o", "d", "e", " ">> >>

CYMRU_CMD_LAST == << <<"e", "n", "d", " ">> >>

\* the data cymru_chk hands to cymru_get_whois for the addresses req: the
\* lines of the header, one line per address, the lines of the trailer
cymru_data(req) ==
    [first |-> CYMRU_CMD_FIRST,
     ips   |-> { ip \o <<" ">> : ip \in req },
     last  |-> CYMRU_CMD_LAST]

Requests(d, t) == UNION {request_sets(h) : h \in {Hits(d, t)}}

\* the record of a run of cymru_chk in hist
ObserveChk(h, r, p) ==
    IF r.scanned
    THEN [h EXCEPT !.scanned = TRUE,
                   !.scan_tree = get_tree,
                   !.scan_nodes = IF get_tree = 0 THEN {} ELSE trees[get_tree],
                   !.scan_busy = BagCardinality(p.inflight) > 0
                                 \/ BagCardinality(p.waitq) > 0]
    ELSE [h EXCEPT !.polled = TRUE]

\* the index in use belongs to a session that has not yet installed every ASN
PartialIndex ==
    /\ SessionActive
    /\ tn.Tree = mytree
    /\ tn.as_ptr < Len(as_search_list)

\* blklst_Main(bstate)
blklst_Main ==
    LET chk_as == blk_check_ip(sanity_ip, get_tree) IN
    IF chk_as = sanity_as
    THEN /\ ip_prob_cnt' = 0
         /\ mydict' = EmptyDict
         /\ fetch' = [u \in Urls |-> "pending"]
         /\ pc' = "fetching"
         /\ hist' = [hist EXCEPT !.chk_tree = get_tree,
                                 !.chk_nodes = trees[get_tree],
                                 !.chk_partial = PartialIndex,
                                 !.scanned = FALSE, !.polled = FALSE,
                                 !.queued = FALSE,
                                 !.done_cnt = 0, !.done_early = FALSE,
                                 !.retries = 0, !.last_main = "ok"]
         /\ UNCHANGED << mytree, my_rte_srv, trees, svars, bodies, wh, status,
                         pvars, rvars >>
    ELSE LET b == bump_ip_prob_cnt(ip_prob_cnt) IN
         /\ ip_prob_cnt' = b.cnt
         /\ IF b.exceeded
            THEN IF "blk_rteserv_read" \in blk_main_names
                 THEN /\ ~SessionActive
                      /\ Len(trees) < MaxRefresh
                      /\ my_rte_srv' = get_next_rte_srv(my_rte_srv)
                      /\ read_rtesrv
                      /\ pc' = "idle"
                      /\ hist' = [hist EXCEPT !.last_main = "rebuild",
                                              !.last_retries = hist.retries,
                                              !.retries = 0]
                      /\ UNCHANGED rs_lines
                 ELSE /\ pc' = "idle"
                      /\ hist' = [hist EXCEPT !.last_main = "error",
                                              !.last_retries = hist.retries,
                                              !.retries = 0]
                      /\ UNCHANGED << mytree, my_rte_srv, trees, svars >>
            ELSE /\ pc' = "retry"
                 /\ hist' = [hist EXCEPT !.retries = @ + 1,
                                         !.last_main = "retry"]
                 /\ UNCHANGED << mytree, my_rte_srv, trees, svars >>
         /\ UNCHANGED << mydict, fetch, bodies, wh, status, pvars, rvars >>

\* the blocklist interval has elapsed: blklst_Main is called
IngestTimer ==
    /\ pc = "idle"
    /\ blklst_Main

\* reactor.callLater(cfg.ip_prob_retry, blklst_Main, bstate) fires
SanityRetry ==
    /\ pc = "retry"
    /\ blklst_Main

\* the result of the download u has arrived and its callbacks have run; the
\* DeferredList then runs blklsts_done, which runs cymru_chk at once
FetchSettled(u, ok) ==
    /\ pc = "fetching"
    /\ fetch[u] = "pending"
    /\ \E r \in { IF ok
                   THEN page_lines([dict |-> mydict, pool |-> Pool, raised |-> FALSE],
                                   bodies[u], blklist_urls[u])
                   ELSE [dict |-> mydict, pool |-> Pool, raised |-> FALSE] },
          f \in { [fetch EXCEPT ![u] = IF ok THEN "ok" ELSE "err"] } :
           /\ fetch' = f
           /\ mydict' = r.dict
           /\ SetPool(r.pool)
           /\ IF all_settled(f)
              THEN \E req \in Requests(r.dict, get_tree) :
                     \E c \in {cymru_chk(r.dict, r.pool, req)} :
                     /\ pc' = c.pc
                     /\ wh' = c.wh
                     /\ status' = c.status
                     /\ hist' = [ObserveChk(hist, c, r.pool) EXCEPT
                                    !.queued = @ \/ r.pool.waitq # EmptyBag,
                                    !.done_cnt = @ + 1,
                                    !.done_early =
                                        \E v \in Urls : f[v] = "pending"]
              ELSE /\ hist' = [hist EXCEPT
                                    !.queued = @ \/ r.pool.waitq # EmptyBag]
                   /\ UNCHANGED << pc, wh, status >>
    /\ UNCHANGED << mytree, my_rte_srv, ip_prob_cnt, trees, svars, bodies, rvars >>

\* blklst_page_read_ok has run for the download u
blklst_page_read_ok == \E u \in Urls : FetchSettled(u, TRUE)

\* blklst_error has run for the download u
blklst_error == \E u \in Urls : FetchSettled(u, FALSE)

\* reactor.callLater(cfg.cymru_delay, cymru_chk, bstate) fires
CymruChkPoll ==
    /\ pc = "dnswait"
    /\ \E req \in Requests(mydict, get_tree) :
         \E c \in {cymru_chk(mydict, Pool, req)} :
         /\ pc' = c.pc
         /\ wh' = c.wh
         /\ status' = c.status
         /\ hist' = ObserveChk(hist, c, Pool)
    /\ UNCHANGED << bvars, svars, fetch, bodies, pvars, rvars >>

(***************************************************************************)
(* DNS answers (WorkerService.lookup_done / lookup_err) and the retry of a *)
(* waiting request                                                         *)
(***************************************************************************)

IpSanity == sanity_ip

IpDns == <<"1", ".", "0", ".", "0", ".", "2">>

IpOther == <<"2", ".", "0", ".", "0", ".", "2">>

\* the addresses the resolver may answer
DnsAnswers == {IpDns}

\* lookup_done that passes no org to insert_ip
lookup_done_noorg(req, result) ==
    /\ inflight' = BagDel(inflight, req)
    /\ num_x' = max0(num_x - 1)
    /\ mydict' = insert_ip(mydict, result, sep_join(req.name, req.desc),
                           EmptyStr, EmptyStr, EmptyStr)

\* lookup_done for the request req, answered with the address result
lookup_done_req(req, result) ==
    /\ inflight' = BagDel(inflight, req)
    /\ num_x' = max0(num_x - 1)
    /\ mydict' = insert_ip(mydict, result, sep_join(req.name, req.desc),
                           EmptyStr, req.org, EmptyStr)

\* WorkerService.lookup_done(result, name, mydesc, myorg)
lookup_done ==
    /\ \E req \in BagToSet(inflight), result \in DnsAnswers :
        lookup_done_req(req, result)
    /\ UNCHANGED << mytree, my_rte_srv, ip_prob_cnt, trees, svars, cvars,
                    num_wait, waitq, rvars >>

\* lookup_err that leaves the counter of active lookups alone
lookup_err_nodec ==
    /\ \E req \in BagToSet(inflight) :
        /\ inflight' = BagDel(inflight, req)
        /\ num_x' = num_x
    /\ UNCHANGED << bvars, svars, cvars, num_wait, waitq, rvars >>

\* WorkerService.lookup_err(failure, name, mydesc, myorg)
lookup_err ==
    /\ \E req \in BagToSet(inflight) :
        /\ inflight' = BagDel(inflight, req)
        /\ num_x' = max0(num_x - 1)
    /\ UNCHANGED << bvars, svars, cvars, num_wait, waitq, rvars >>

\* the timer of task.deferLater fires: do_lookup(name, True, mydesc, myorg)
do_lookup_retry ==
    /\ \E req \in BagToSet(waitq) :
        SetPool(do_lookup([Pool EXCEPT !.waitq = BagDel(@, req)], req, TRUE))
    /\ UNCHANGED << bvars, svars, cvars, rvars >>

(***************************************************************************)
(* Bulk whois session (blk_rdblk.py) and the final report (cymru_done)     *)
(***************************************************************************)

\* str.split(c, n)
RECURSIVE split_max(_, _, _)
split_max(s, c, n) ==
    IF n = 0 \/ find_first(s, {c}) = 0
    THEN << s >>
    ELSE LET i == find_first(s, {c})
         IN  << SubSeq(s, 1, i - 1) >>
                 \o split_max(SubSeq(s, i + 1, Len(s)), c, n - 1)

\* hostileIPs.updt_whois(line)
updt_whois(d, line) ==
    LET parts == split_max(strip(line), "|", 3) IN
    IF Len(parts) # 4 THEN d
    ELSE LET myip == strip(parts[2]) IN
         IF myip \in DOMAIN d
         THEN insert_ip(d, myip, strip(parts[4]), strip(parts[1]),
                        EmptyStr, strip(parts[3]))
         ELSE d

WhoisLine(asn, ip, cc, desc) == asn \o SEP \o ip \o SEP \o cc \o SEP \o desc

\* the lines the whois server may answer
WhoisLines ==
    { WhoisLine(<<"7">>, IpSanity, <<"U">>, <<"n">>),
      WhoisLine(<<"7", "1">>, IpDns, <<"U">>, <<"n">>) }

\* cymru_done(arg, bstate)
cymru_done ==
    /\ LET recs == report_recs(mydict) IN
       status' = IF recs # {} THEN [msg |-> "report", recs |-> recs] ELSE status
    /\ wh' = NoWhois
    /\ pc' = "idle"

\* BulkDataFactory.clientConnectionFailed, then cymru_failed and cymru_done
whois_connectionFailed ==
    /\ wh.st = "connecting"
    /\ cymru_done
    /\ UNCHANGED << bvars, svars, fetch, bodies, hist, pvars, rvars >>

\* BulkDataProtocol.connectionMade: the request is written
whois_connectionMade ==
    /\ wh.st = "connecting"
    /\ wh' = [wh EXCEPT !.st = "open"]
    /\ UNCHANGED << bvars, svars, pc, fetch, bodies, status, hist, pvars, rvars >>

\* BulkDataProtocol.lineReceived(line)
whois_lineReceived ==
    /\ wh.st = "open"
    /\ \E line \in WhoisLines : mydict' = updt_whois(mydict, line)
    /\ UNCHANGED << mytree, my_rte_srv, ip_prob_cnt, trees, svars, cvars,
                    pvars, rvars >>

\* BulkDataFactory.clientConnectionLost, then cymru_done
whois_connectionLost ==
    /\ wh.st = "open"
    /\ cymru_done
    /\ UNCHANGED << bvars, svars, fetch, bodies, hist, pvars, rvars >>

(***************************************************************************)
(* Two registries that receive the same insert_ip calls in two orders      *)
(***************************************************************************)

Call(ip, desc, as_, org, cc) ==
    [ip |-> ip, desc |-> desc, as_ |-> as_, org |-> org, cc |-> cc]

\* the calls drawn for the registries: one address, each call with an org
RegCallSet ==
    { Call(IpSanity, desc, as_, org, cc) :
        desc \in {EmptyStr, <<"a">>, <<"a", "b">>},
        as_  \in {EmptyStr, <<"7">>},
        org  \in {<<"d">>, <<"z">>},
        cc   \in {EmptyStr} }

apply_call(d, c) == insert_ip(d, c.ip, c.desc, c.as_, c.org, c.cc)

ApplyA ==
    /\ \E i \in leftA :
        /\ regA' = apply_call(regA, regCalls[i])
        /\ leftA' = leftA \ {i}
    /\ UNCHANGED << bvars, svars, cvars, pvars, regB, regCalls, leftB, tvars, hvars >>

ApplyB ==
    /\ \E i \in leftB :
        /\ regB' = apply_call(regB, regCalls[i])
        /\ leftB' = leftB \ {i}
    /\ UNCHANGED << bvars, svars, cvars, pvars, regA, regCalls, leftA, tvars, hvars >>

(***************************************************************************)
(* Specifications                                                          *)
(***************************************************************************)

\* the state after the construction of BlkState and WorkerService
InitProgram ==
    /\ mytree = 0
    /\ mydict = NoDict
    /\ my_rte_srv = -1
    /\ ip_prob_cnt = 0
    /\ trees = << >>
    /\ tn = NoSession
    /\ sent = << >>
    /\ ended = "none"
    /\ pc = "idle"
    /\ fetch = [u \in Urls |-> "idle"]
    /\ num_x = 0
    /\ num_wait = 0
    /\ inflight = EmptyBag
    /\ waitq = EmptyBag
    /\ wh = NoWhois
    /\ status = NoStatus
    /\ hist = InitHist

\* no tree that receives insert calls alone
NoTree ==
    /\ root = NIL_NODE
    /\ inserted = {}

NoCalls ==
    /\ regA = EmptyDict
    /\ regB = EmptyDict
    /\ regCalls = << >>
    /\ leftA = {}
    /\ leftB = {}
    /\ NoTree
    /\ prompts = 0
    /\ srv = NoServer
    /\ bd = NoStream

LineIp == IpSanity \o <<" ", "x">>

LineHost == <<"h", " ", "y">>

\* the orchestrator with a route server and two short blocklists
Init ==
    /\ InitProgram
    /\ NoCalls
    /\ rs_lines = {LinePrompt, LineMore, LineRoute(Net1)}
    /\ bodies = << <<LineIp>>, <<LineHost>> >>

Next ==
    \/ blk_rteserv_read
    \/ clientConnectionFailed
    \/ connectionMade
    \/ RsLineReceived
    \/ connectionLost
    \/ IngestTimer
    \/ SanityRetry
    \/ blklst_page_read_ok
    \/ blklst_error
    \/ CymruChkPoll
    \/ lookup_done
    \/ lookup_err
    \/ whois_connectionFailed
    \/ whois_connectionMade
    \/ whois_lineReceived
    \/ whois_connectionLost

Spec == Init /\ [][Next]_vars

\* the registries alone: the calls are drawn, then applied in any two orders
InitReg ==
    /\ InitProgram
    /\ rs_lines = {}
    /\ bodies = << << >>, << >> >>
    /\ regA = EmptyDict
    /\ regB = EmptyDict
    /\ NoTree
    /\ prompts = 0
    /\ srv = NoServer
    /\ bd = NoStream
    /\ \E n \in 1..MaxCalls : regCalls \in [1..n -> RegCallSet]
    /\ leftA = DOMAIN regCalls
    /\ leftB = DOMAIN regCalls

NextReg == ApplyA \/ ApplyB

SpecReg == InitReg /\ [][NextReg]_vars

\* the registry alone, under any sequence of insert_ip and updt_whois calls:
\* regB is the registry before the last call, regCalls holds the last call
IpPort == IpSanity \o <<":", "8", "0">>

HostName == <<"h">>

InsOp(ip, desc, as_, org, cc) ==
    [op |-> "insert_ip", ip |-> ip, desc |-> desc, as_ |-> as_, org |-> org,
     cc |-> cc, line |-> EmptyStr]

WhoisOp(line) ==
    [op |-> "updt_whois", ip |-> EmptyStr, desc |-> EmptyStr, as_ |-> EmptyStr,
     org |-> EmptyStr, cc |-> EmptyStr, line |-> line]

\* the insert_ip calls: every combination of fields on one address, and one
\* call each on a second address, an address with a port and a host name
InsCallSet ==
    { InsOp(IpSanity, desc, as_, org, cc) :
        desc \in {EmptyStr, <<"a">>},
        as_  \in {EmptyStr, <<"7">>, <<"7", "1">>},
        org  \in {EmptyStr, <<"d">>, <<"z">>},
        cc   \in {EmptyStr, <<"U">>} }
    \cup { InsOp(IpOther, <<" ", "a">>, EmptyStr, <<"d">>, EmptyStr),
           InsOp(IpOther, <<"a">>, <<"7">>, EmptyStr, EmptyStr),
           InsOp(IpPort, EmptyStr, EmptyStr, <<"d">>, EmptyStr),
           InsOp(HostName, <<"a">>, EmptyStr, <<"d">>, EmptyStr) }

\* the whois lines: for an address of the registry, for another address, and
\* a line with too few fields
WhoisInputs ==
    { WhoisLine(<<"7">>, IpSanity, <<"U">>, <<"a">>),
      WhoisLine(<<"7", "1">>, IpSanity, <<"U">>, <<"a">>) \o <<"\n">>,
      WhoisLine(<<"7">>, IpDns, <<"U">>, <<"a">>),
      <<"7">> \o SEP \o IpSanity }

RegInsertIp ==
    /\ \E c \in InsCallSet :
        /\ regA' = insert_ip(regA, c.ip, c.desc, c.as_, c.org, c.cc)
        /\ regCalls' = << c >>
    /\ regB' = regA
    /\ UNCHANGED << bvars, svars, cvars, pvars, leftA, leftB, tvars, hvars >>

RegUpdtWhois ==
    /\ \E line \in WhoisInputs :
        /\ regA' = updt_whois(regA, line)
        /\ regCalls' = << WhoisOp(line) >>
    /\ regB' = regA
    /\ UNCHANGED << bvars, svars, cvars, pvars, leftA, leftB, tvars, hvars >>

InitIns ==
    /\ InitProgram
    /\ NoCalls
    /\ rs_lines = {}
    /\ bodies = << << >>, << >> >>

NextIns == RegInsertIp \/ RegUpdtWhois

SpecIns == InitIns /\ [][NextIns]_vars

\* the DNS throttle under load: the index has been built by a session that
\* ended cleanly, and the first blocklist lists many host names
BuiltIndex ==
    /\ mytree = 1
    /\ my_rte_srv = 0
    /\ trees = << {[key |-> IPNetwork(Net1), value |-> sanity_as]} >>
    /\ tn = [st |-> "none", Tree |-> 1, as_ptr |-> Len(as_search_list),
             cmd_prompt_cnt |-> rs_as_cmd_throttle, state_more |-> TRUE,
             my_addr_list |-> << >>]
    /\ sent = << ListCmd(as_search_list[1]), ListCmd(as_search_list[2]), ExitCmd >>
    /\ ended = "clean"

InitPool ==
    /\ BuiltIndex
    /\ mydict = NoDict
    /\ ip_prob_cnt = 0
    /\ pc = "idle"
    /\ fetch = [u \in Urls |-> "idle"]
    /\ num_x = 0
    /\ num_wait = 0
    /\ inflight = EmptyBag
    /\ waitq = EmptyBag
    /\ wh = NoWhois
    /\ status = NoStatus
    /\ hist = InitHist
    /\ NoCalls
    /\ rs_lines = {LinePrompt, LineMore, LineRoute(Net1)}
    /\ \E n \in {1, MaxHosts} :
         bodies = << [i \in 1..n |-> LineHost], <<LineHost>> >>

NextPool ==
    \/ IngestTimer
    \/ blklst_page_read_ok
    \/ blklst_error
    \/ CymruChkPoll
    \/ lookup_done
    \/ lookup_err
    \/ do_lookup_retry
    \/ whois_connectionFailed
    \/ whois_connectionMade
    \/ whois_lineReceived
    \/ whois_connectionLost

SpecPool == InitPool /\ [][NextPool]_vars

\* the lines a blocklist may hold
LineBare == <<"h">>

LineUrlPort == PAT_HTTP \o <<":", "/", "/">> \o IpPort \o <<"/", "x">>

LineUrlHost == PAT_FTP \o <<":", "/", "/">> \o <<"e", ".", "c", "/">>

LineNoUrl == PAT_HTTP \o <<"x", " ", "y">>

LineAcl ==
    PAT_ACL \o <<"i", "p", " ", "h", "o", "s", "t", " ">> \o IpOther
            \o <<" ", "a", "n", "y", " ", "l", "o", "g", " ", "b">>

LineAclHost ==
    PAT_ACL \o <<"i", "p", " ", "h", "o", "s", "t", " ", "x", "y">>
            \o <<" ", "a", "n", "y", " ", "l", "o", "g">>

LineNoAcl == PAT_ACL \o <<"x">>

LineComment == <<"#", "x">>

LineBlank == <<" ">>

LineIpSuffix == IpSanity \o <<"x", " ", "z">>

LineSet ==
    { LineIp, LineHost, LineBare, LineUrlPort, LineUrlHost, LineNoUrl,
      LineAcl, LineAclHost, LineNoAcl, LineComment, LineBlank, LineIpSuffix }

\* the number of lines of a blocklist
MaxLines == 2

\* the bodies a download may deliver
PageSet == UNION { [1..n -> LineSet] : n \in 0..MaxLines }

\* the downloads of a cycle are under way: the first blocklist holds any
\* page, the second one host name
InitLines ==
    /\ BuiltIndex
    /\ mydict = EmptyDict
    /\ ip_prob_cnt = 0
    /\ pc = "fetching"
    /\ fetch = [u \in Urls |-> "pending"]
    /\ num_x = 0
    /\ num_wait = 0
    /\ inflight = EmptyBag
    /\ waitq = EmptyBag
    /\ wh = NoWhois
    /\ status = NoStatus
    /\ hist = InitHist
    /\ NoCalls
    /\ rs_lines = {}
    /\ \E page \in PageSet : bodies = << page, <<LineHost>> >>

NextLines ==
    \/ blklst_page_read_ok
    \/ blklst_error
    \/ lookup_done
    \/ lookup_err

SpecLines == InitLines /\ [][NextLines]_vars

\* every resolution is answered and every timer fires
FairSpecPool ==
    /\ SpecPool
    /\ WF_vars(lookup_done \/ lookup_err)
    /\ WF_vars(do_lookup_retry)
    /\ WF_vars(CymruChkPoll)

\* the decimal digits of a number below 100
Digits == << "0", "1", "2", "3", "4", "5", "6", "7", "8", "9" >>

dec(k) ==
    IF k < 10 THEN << Digits[k + 1] >>
    ELSE << Digits[(k \div 10) + 1], Digits[(k % 10) + 1] >>

\* the k-th address of the network Net1
HitIp(k) == <<"1", ".", "0", ".", "0", ".">> \o dec(k)

\* addresses of the monitored network on one blocklist
MaxIps == 21

\* the downloads of a cycle are under way: the first blocklist lists
\* addresses of the monitored network, the second one a host name, an
\* address outside the monitored networks, or nothing
InitCycle ==
    /\ BuiltIndex
    /\ mydict = EmptyDict
    /\ ip_prob_cnt = 0
    /\ pc = "fetching"
    /\ fetch = [u \in Urls |-> "pending"]
    /\ num_x = 0
    /\ num_wait = 0
    /\ inflight = EmptyBag
    /\ waitq = EmptyBag
    /\ wh = NoWhois
    /\ status = NoStatus
    /\ hist = InitHist
    /\ NoCalls
    /\ rs_lines = {}
    /\ \E n \in 0..MaxIps, page \in {<< >>, <<LineHost>>, <<IpOther>>} :
         bodies = << [i \in 1..n |-> HitIp(i)], page >>

NextCycle ==
    \/ blklst_page_read_ok
    \/ blklst_error
    \/ lookup_done
    \/ lookup_err
    \/ CymruChkPoll
    \/ whois_connectionFailed
    \/ whois_connectionMade
    \/ whois_lineReceived
    \/ whois_connectionLost

SpecCycle == InitCycle /\ [][NextCycle]_vars

\* two runs of one cycle on the same blocklist bodies, DNS answers and whois
\* lines: regA and regB are the registries of the runs, leftA and leftB the
\* events each run has still to see
PageEvent(u) == [kind |-> "page", u |-> u, i |-> 0, line |-> EmptyStr]

DnsEvent(u, i) == [kind |-> "dns", u |-> u, i |-> i, line |-> EmptyStr]

WhoisEvent(line) == [kind |-> "whois", u |-> 0, i |-> 0, line |-> line]

\* the events of a cycle on the bodies b: each download, the answer to each
\* lookup a line schedules, each line of the whois answer
run_events(b) ==
    { PageEvent(u) : u \in Urls }
    \cup { e \in { DnsEvent(u, i) : u \in Urls, i \in 1..MaxLines } :
              /\ e.i <= Len(b[e.u])
              /\ insert_blklst_line(b[e.u][e.i]).act = "dns" }
    \cup { WhoisEvent(line) : line \in WhoisLines }

\* the event e can happen when the events left are those of left: a lookup
\* is answered after its line was read, and the whois session starts when
\* the downloads have their results and no lookup is in progress
event_enabled(e, left) ==
    CASE e.kind = "page"  -> TRUE
      [] e.kind = "dns"   -> PageEvent(e.u) \notin left
      [] e.kind = "whois" -> \A o \in left : o.kind = "whois"

\* the registry d after the event e
apply_event(d, e) ==
    CASE e.kind = "page"  ->
            page_lines([dict |-> d, pool |-> Pool, raised |-> FALSE],
                       bodies[e.u], blklist_urls[e.u]).dict
      [] e.kind = "dns"   ->
            CHOOSE r \in { insert_ip(d, IpDns, sep_join(a.addr, a.desc),
                                     EmptyStr, blklist_urls[e.u], EmptyStr) :
                             a \in {insert_blklst_line(bodies[e.u][e.i])} } : TRUE
      [] e.kind = "whois" -> updt_whois(d, e.line)

RunA ==
    /\ \E e \in leftA :
        /\ event_enabled(e, leftA)
        /\ regA' = apply_event(regA, e)
        /\ leftA' = leftA \ {e}
    /\ UNCHANGED << bvars, svars, cvars, pvars, regB, regCalls, leftB, tvars, hvars >>

RunB ==
    /\ \E e \in leftB :
        /\ event_enabled(e, leftB)
        /\ regB' = apply_event(regB, e)
        /\ leftB' = leftB \ {e}
    /\ UNCHANGED << bvars, svars, cvars, pvars, regA, regCalls, leftA, tvars, hvars >>

\* the pages of the two blocklists of the runs
RunPages == { <<LineIp>>, <<LineHost>>, <<LineIp, LineHost>>, <<LineHost, LineIp>> }

InitRuns ==
    /\ InitProgram
    /\ rs_lines = {}
    /\ regA = EmptyDict
    /\ regB = EmptyDict
    /\ regCalls = << >>
    /\ NoTree
    /\ prompts = 0
    /\ srv = NoServer
    /\ bd = NoStream
    /\ \E p1 \in RunPages, p2 \in RunPages :
        /\ bodies = << p1, p2 >>
        /\ leftA = run_events(<< p1, p2 >>)
        /\ leftB = run_events(<< p1, p2 >>)

NextRuns == RunA \/ RunB

SpecRuns == InitRuns /\ [][NextRuns]_vars

(***************************************************************************)
(* Properties                                                              *)
(***************************************************************************)

\* a run of blklst_Main that finds the sanity lookup wrong
SanityMismatch ==
    /\ IngestTimer \/ SanityRetry
    /\ blk_check_ip(sanity_ip, get_tree) # sanity_as

\* a route-server refresh against the next server of the list starts
RefreshStarts ==
    /\ tn'.st = "connecting"
    /\ my_rte_srv' = get_next_rte_srv(my_rte_srv)
    /\ mytree' # mytree

\* C1 (as stated): the index handed out by get_tree() is never a partially
\* built one; no sanity check of blklst_Main succeeds on the index of a
\* session that is still installing prefixes.
C1_NoPartialIndexObserved == ~hist.chk_partial

\* C2: the index that cymru_chk consults for filtering is the index on which
\* the sanity check of the same cycle succeeded, the same tree with the same
\* nodes.
C2_ScanUsesCheckedIndex ==
    hist.scanned =>
        /\ hist.scan_tree = hist.chk_tree
        /\ hist.scan_nodes = hist.chk_nodes

\* C3: on a sanity mismatch the counter is incremented; below ip_prob_max
\* blklst_Main is rescheduled and no refresh starts; otherwise the counter is
\* reset and a refresh against the next server starts; the registry is not
\* replaced and no blocklist is fetched.
C3_SanityMismatchBranches ==
    [][ SanityMismatch =>
          /\ IF ip_prob_cnt + 1 < ip_prob_max
             THEN /\ ip_prob_cnt' = ip_prob_cnt + 1
                  /\ pc' = "retry"
                  /\ UNCHANGED << mytree, my_rte_srv, tn >>
             ELSE /\ ip_prob_cnt' = 0
                  /\ RefreshStarts
          /\ UNCHANGED << mydict, fetch >> ]_vars

\* C4: from counter 0 with an index that never holds the sanity prefix,
\* ip_prob_max retries are scheduled one after the other, then a refresh
\* against the next server starts and the counter is 0.
C4_RetriesThenRefresh ==
    [][ (SanityMismatch /\ pc' # "retry") =>
          /\ hist.retries = ip_prob_max
          /\ RefreshStarts
          /\ ip_prob_cnt' = 0 ]_vars

C6_BlklstsDoneOnce ==
    /\ hist.done_cnt <= 1
    /\ pc = "fetching" =>
          hist.done_cnt = 0 /\ \E u \in Urls : fetch[u] = "pending"
    /\ pc \in {"dnswait", "whois"} => hist.done_cnt = 1
    /\ hist.done_cnt = 1 =>
          ~hist.done_early /\ \A u \in Urls : fetch[u] \in {"ok", "err"}

\* one download has failed, the other has been read, and the cycle has gone
\* on to the whois session
C6_Witness ==
    /\ hist.done_cnt = 1
    /\ \E u \in Urls : fetch[u] = "err"
    /\ \E u \in Urls : fetch[u] = "ok"
    /\ pc = "whois"

\* C7: at most max_x resolutions are under way at any time.
C7_AtMostMaxInFlight == BagCardinality(inflight) <= max_x

\* the pool is full and further requests wait
C7_Witness ==
    /\ BagCardinality(inflight) = max_x
    /\ BagCardinality(waitq) > 0

C10_MergeCommutes ==
    (leftA = {} /\ leftB = {}) => regA = regB

\* the last call on the registry, when it was an insert_ip call
LastInsert == regCalls # << >> /\ regCalls[1].op = "insert_ip"

\* the last call on the registry, when it was an updt_whois call
LastWhois == regCalls # << >> /\ regCalls[1].op = "updt_whois"

\* C11: applying one insert_ip call a second time right after the first
\* leaves the registry as the first application left it.
C11_InsertIdempotent ==
    LastInsert =>
        LET c == regCalls[1] IN
        insert_ip(regA, c.ip, c.desc, c.as_, c.org, c.cc) = regA

\* the last call joined a value to a field of a record that was there before
C11_Witness ==
    /\ LastInsert
    /\ regCalls[1].ip \in DOMAIN regB
    /\ regA # regB
    /\ regCalls[1].org # EmptyStr
    /\ regA[regCalls[1].ip][3] # regB[regCalls[1].ip][3]

\* SEP stands at position i of s
SepAt(s, i) == i >= 1 /\ i + 2 <= Len(s) /\ SubSeq(s, i, i + 2) = SEP

\* the members of a field: the non-empty pieces of the string between
\* occurrences of SEP
field_members(s) ==
    { SubSeq(s, i, j) : i \in 1..Len(s), j \in 1..Len(s) } \cap
    { m \in { SubSeq(s, i, j) : i \in 1..Len(s), j \in 1..Len(s) } :
        /\ m # EmptyStr
        /\ ~str_in(SEP, m)
        /\ \E i \in 1..Len(s) :
            /\ i + Len(m) - 1 <= Len(s)
            /\ SubSeq(s, i, i + Len(m) - 1) = m
            /\ i = 1 \/ SepAt(s, i - 3)
            /\ i + Len(m) - 1 = Len(s) \/ SepAt(s, i + Len(m)) }

\* the members of field f after the call are those before it and the value v
field_union(old, new, v) ==
    field_members(new) = field_members(old) \cup (IF v = EmptyStr THEN {} ELSE {v})

\* C12: an insert_ip call on an address of the registry makes each of the
\* four fields the set union of its previous members and the value given for
\* it: the value is a member afterwards and no previous member is lost.
C12_FieldsAreSetUnion ==
    (LastInsert /\ regCalls[1].ip \in DOMAIN regB) =>
        LET c == regCalls[1]
            old == regB[c.ip]
            new == regA[c.ip]
        IN  /\ field_union(old[1], new[1], c.as_)
            /\ field_union(old[2], new[2], c.cc)
            /\ field_union(old[3], new[3], c.org)
            /\ field_union(old[4], new[4], strip(c.desc))

\* s is four groups of one to three digits separated by dots, and no more
dotted_quad(s) ==
    \E a \in 1..3, b \in 1..3, c \in 1..3, d \in 1..3 :
        /\ Len(s) = a + b + c + d + 3
        /\ DigitsAt(s, 1, a)
        /\ DotAt(s, 1 + a)
        /\ DigitsAt(s, 2 + a, b)
        /\ DotAt(s, 2 + a + b)
        /\ DigitsAt(s, 3 + a + b, c)
        /\ DotAt(s, 3 + a + b + c)
        /\ DigitsAt(s, 4 + a + b + c, d)

\* C14: an insert_ip call for an address that is not in the registry creates
\* its record only when it carries an org; without an org, or with a key that
\* is not an IPv4 address, the call is rejected with a log entry and the
\* registry stays as it was.
C14_NewRecordNeedsOrgAndIpv4 ==
    (LastInsert /\ regCalls[1].ip \notin DOMAIN regB) =>
        LET c == regCalls[1] IN
        IF c.org = EmptyStr \/ ~dotted_quad(c.ip)
        THEN regA = regB /\ insert_ip_rejects(regB, c.ip, c.org)
        ELSE DOMAIN regA = DOMAIN regB \cup {c.ip}

\* the fields of a whois line, each without its surrounding white space
whois_fields(line) ==
    LET parts == split_max(strip(line), "|", 3) IN
    [i \in 1..Len(parts) |-> strip(parts[i])]

\* v is a member of the field s, when there is a v
member_if_given(v, s) == v = EmptyStr \/ v \in field_members(s)

\* C15: updt_whois on a line 'asn | ip | cc | desc' whose ip is a key makes
\* asn, cc and desc members of the asns, ccs and descs of that record and
\* changes neither its orgs nor another record; on a line for another ip or
\* with fewer than four fields it leaves the registry as it was.
C15_WhoisMergesMembers ==
    LastWhois =>
        LET f == whois_fields(regCalls[1].line) IN
        IF Len(f) = 4 /\ f[2] \in DOMAIN regB
        THEN /\ DOMAIN regA = DOMAIN regB
             /\ member_if_given(f[1], regA[f[2]][1])
             /\ member_if_given(f[3], regA[f[2]][2])
             /\ member_if_given(f[4], regA[f[2]][4])
             /\ regA[f[2]][3] = regB[f[2]][3]
             /\ \A k \in DOMAIN regB \ {f[2]} : regA[k] = regB[k]
        ELSE regA = regB

\* the filter values given to list_grp
GrpAs == {EmptyStr, <<"7">>, <<"7", "1">>}

GrpOrg == {EmptyStr, <<"d">>}

GrpCc == {EmptyStr, <<"U">>}

\* C16: list_grp(as_, org, cc) yields exactly the records in which every
\* given filter value is a member of the corresponding field, and every
\* record when no filter is given.
C16_ListGrpSelectsMembers ==
    \A a \in GrpAs, o \in GrpOrg, c \in GrpCc :
        list_grp(regA, a, o, c) =
            {ip \in DOMAIN regA :
                /\ member_if_given(a, regA[ip][1])
                /\ member_if_given(o, regA[ip][3])
                /\ member_if_given(c, regA[ip][2])}

\* C13: every key of the registry is a dotted-quad IPv4 address and nothing
\* else, whatever the lines of the blocklists and the answers of the resolver.
C13_KeysAreDottedQuads ==
    \A k \in DOMAIN mydict : dotted_quad(k)

\* the positions of the lines of the page u on which insert_blklst_line has
\* been called: the page was read, and no line before raised
parsed_lines(u) ==
    IF fetch[u] = "ok"
    THEN {i \in 1..Len(bodies[u]) :
            \A j \in 1..(i - 1) : insert_blklst_line(bodies[u][j]).act # "raise"}
    ELSE {}

\* the line is neither blank nor a comment
content_line(line) ==
    \E l \in {strip(line)} : l # EmptyStr /\ l[1] \notin {"#", "!"}

\* C17: for every line that is neither empty nor a comment,
\* insert_blklst_line does exactly one of three things: it inserts into the
\* registry, it schedules a DNS lookup, or it writes one "unknown format" log
\* entry.
C17_EveryLineClassified ==
    \A u \in Urls : \A i \in parsed_lines(u) :
        content_line(bodies[u][i]) =>
            \E a \in {insert_blklst_line(bodies[u][i])} :
                \/ a.act = "insert" /\ a.addr \in DOMAIN mydict
                \/ a.act = "dns"
                \/ unknown_logged(a)

\* C18: insert_blklst_line raises for no line, so every line of a page that
\* was read has been parsed: the address of each line that inserts is a key
\* of the registry with the tag of the blocklist among its orgs.
C18_ParserNeverRaises ==
    \A u \in Urls : fetch[u] = "ok" =>
        \A i \in 1..Len(bodies[u]) :
            \E a \in {insert_blklst_line(bodies[u][i])} :
                /\ a.act # "raise"
                /\ a.act = "insert" =>
                      /\ a.addr \in DOMAIN mydict
                      /\ str_in(blklist_urls[u], mydict[a.addr][3])

\* C19: the token of a URL line or of an '<addr> <desc>' line is inserted
\* with the tag of the blocklist exactly when it is a dotted-quad IPv4
\* literal and is handed to the DNS lookup otherwise; an ACE line inserts its
\* address with its description and the tag.
C19_InsertIffDottedQuad ==
    \A u \in Urls : \A i \in parsed_lines(u) :
        \E a \in {insert_blklst_line(bodies[u][i])} :
            /\ a.act \in {"insert", "dns"} =>
                  (a.act = "insert" <=> dotted_quad(a.addr))
            /\ a.act = "insert" =>
                  /\ a.addr \in DOMAIN mydict
                  /\ str_in(blklist_urls[u], mydict[a.addr][3])
                  /\ str_in(strip(a.desc), mydict[a.addr][4])

\* after the step the registry holds a record for ip whose orgs contain org
\* and whose descs contain desc
recorded_next(ip, org, desc) ==
    /\ ip \in DOMAIN mydict'
    /\ str_in(org, mydict'[ip][3])
    /\ str_in(desc, mydict'[ip][4])

\* C20 as stated: when the lookup for (name, desc, org) resolves to ip, the
\* registry afterwards holds a record for ip whose orgs contain org and whose
\* descs contain 'name | desc', also when ip had no record before.
C20_ResolvedIsRecorded ==
    [][\A req \in BagToSet(inflight), ip \in DnsAnswers :
          lookup_done_req(req, ip) =>
              recorded_next(ip, req.org, sep_join(req.name, req.desc))]_vars

\* C20: when the lookup for (name, desc, org) resolves to ip, the registry
\* afterwards holds a record for ip whose orgs contain org and whose descs
\* contain 'name | desc' without its surrounding white space, also when ip
\* had no record before.
C20_ResolvedIsRecordedStripped ==
    [][\A req \in BagToSet(inflight), ip \in DnsAnswers :
          lookup_done_req(req, ip) =>
              recorded_next(ip, req.org,
                            strip(sep_join(req.name, req.desc)))]_vars

\* a name without description has resolved to an address, and so has a name
\* of the other blocklist: the second resolution found the record of the first
C20_Witness ==
    /\ IpDns \in DOMAIN mydict
    /\ str_in(blklist_urls[1], mydict[IpDns][3])
    /\ str_in(blklist_urls[2], mydict[IpDns][3])
    /\ str_in(strip(sep_join(LineBare, EmptyStr)), mydict[IpDns][4])
    /\ bodies[1] = << LineBare >>
    /\ inflight = EmptyBag

\* C21: the whois request built by cymru_chk holds at most cyrmu_max address
\* lines; each is a key of the registry that the index places in a monitored
\* ASN, and the lines stand between the header 'begin', 'countrycode' and the
\* trailer 'end'.
C21_RequestWithinLimit ==
    wh.st # "none" =>
        \E data \in {cymru_data(wh.req)} :
            /\ Cardinality(data.ips) <= cyrmu_max
            /\ \A ip \in wh.req :
                  ip \in DOMAIN mydict /\ blk_check_ip(ip, get_tree) # None
            /\ [i \in 1..Len(data.first) |-> strip(data.first[i])]
                  = << <<"b", "e", "g", "i", "n">>,
                       <<"c", "o", "u", "n", "t", "r", "y", "c", "o", "d", "e">> >>
            /\ [i \in 1..Len(data.last) |-> strip(data.last[i])]
                  = << <<"e", "n", "d">> >>

\* C22: when cymru_chk scans the registry and no address hits the index, no
\* whois session is started and the status is 'No hostile IPs found'; when an
\* address hits, a whois session is started and cymru_chk leaves the status
\* as it was.
C22_WhoisIffHit ==
    /\ [][(~hist.scanned /\ hist'.scanned) =>
            IF Hits(mydict', get_tree') = {}
            THEN wh' = NoWhois /\ status'.msg = "nohostile"
            ELSE /\ wh'.st = "connecting"
                 /\ wh'.req # {}
                 /\ status' = status]_vars
    /\ [](status.msg = "nohostile" => wh = NoWhois)

\* the scan found records in the registry, none of them in a monitored ASN
C22_Witness ==
    /\ hist.scanned
    /\ DOMAIN mydict # {}
    /\ Hits(mydict, get_tree) = {}
    /\ status.msg = "nohostile"
    /\ wh = NoWhois

\* the whois session of the cycle ends in this step
WhoisEnds == wh.st # "none" /\ wh'.st = "none"

\* C23: in a cycle whose whois request was not empty, the end of the whois
\* session, clean or not, is followed by one report handed to set_status,
\* built from the registry filtered by each monitored ASN.
C23_ReportAfterWhois ==
    [][WhoisEnds =>
          /\ status'.msg = "report"
          /\ status'.recs = report_recs(mydict')
          /\ status'.recs # {}]_vars

\* C24: for fixed blocklist bodies, DNS answers and whois lines the report
\* of the cycle is the same in every run, whatever the order in which the
\* downloads complete, the lookups are answered and the whois lines arrive.
C24_ReportDeterministic ==
    (leftA = {} /\ leftB = {}) => report_recs(regA) = report_recs(regB)

\* the last route-server session ended without the clean close after 'exit'
SessionAborted == tn.st = "none" /\ ended \in {"lost", "failed"}

\* C25: when a route-server session ends with an unexpected disconnect or a
\* failed connect, its build is discarded: the index that get_tree returns
\* holds none of the prefixes the session installed.
C25_AbortedBuildDiscarded ==
    SessionAborted =>
        \A n \in trees[tn.Tree] : get_tree = 0 \/ n \notin trees[get_tree]

(***************************************************************************)
(* A tree that receives insert calls alone                                 *)
(***************************************************************************)

\* prefixes given to insert
MaxPrefixes == 6

\* the prefix 1.0.k.0/24 for an even k, 1.0.k.0/25 for an odd k
TreePrefix(k) ==
    IPNetwork(<<"1", ".", "0", ".">> \o dec(k) \o <<".", "0", "/", "2">>
                \o (IF k % 2 = 0 THEN <<"4">> ELSE <<"5">>))

TreePrefixes == { TreePrefix(k) : k \in 1..MaxPrefixes }

TreeAsns == { <<"7">>, <<"7", "1">> }

\* addresses at the ends and in the middle of 1.0.k.0/24
TreeProbes ==
    { <<"1", ".", "0", ".">> \o dec(k) \o <<".">> \o j :
        k \in 0..(MaxPrefixes + 1),
        j \in { <<"0">>, <<"1", "2", "7">>, <<"1", "2", "8">>, <<"2", "5", "5">> } }

InitTree ==
    /\ InitProgram
    /\ rs_lines = {}
    /\ bodies = << << >>, << >> >>
    /\ NoCalls

\* mytree.insert(prefix, asn) with a prefix that overlaps no key of the tree
TreeInsert ==
    /\ \E k \in TreePrefixes, v \in TreeAsns :
          /\ \A n \in inserted : ~net_in(k, n.key) /\ ~net_in(n.key, k)
          /\ root' = bbstree_insert(root, k, v)
          /\ inserted' = inserted \cup {[key |-> k, value |-> v]}
    /\ UNCHANGED << bvars, svars, cvars, pvars, regA, regB, regCalls, leftA, leftB,
                    hvars >>

NextTree == TreeInsert

SpecTree == InitTree /\ [][NextTree]_vars

\* C26: after any sequence of insert(prefix, asn) calls with pairwise
\* non-overlapping prefixes, in any order and through the rotations of the
\* tree, chk_ip(x) returns the node of the prefix that contains x, with the
\* ASN that prefix was inserted with, and None for an x outside every prefix
C26_IndexCoverage ==
    \A x \in TreeProbes :
        { [key |-> n.key, value |-> n.value] :
            n \in bbstree_chk_ip(root, IPNetwork(x)) }
          = { n \in inserted : net_in(IPNetwork(x), n.key) }

\* all the prefixes are in the tree, which has been rotated (a split has
\* raised its root to the second level), a probe is found in a node below
\* the root and another one is found nowhere
C26_Witness ==
    /\ Cardinality(inserted) = MaxPrefixes
    /\ root.level >= 2
    /\ \E x \in TreeProbes, n \in nodes_of(root) :
          n # root /\ bbstree_chk_ip(root, IPNetwork(x)) = {n}
    /\ \E x \in TreeProbes : bbstree_chk_ip(root, IPNetwork(x)) = {}

(***************************************************************************)
(* One route-server session on a new tree                                  *)
(***************************************************************************)

\* networks collected for one ASN in the session specification
MaxList == 3

\* the networks the route server lists: two halves of a /23, the /23 next to
\* it, and a /25 inside the first
Agg1 == <<"1", "0", ".", "0", ".", "0", ".", "0", "/", "2", "4">>

Agg2 == <<"1", "0", ".", "0", ".", "1", ".", "0", "/", "2", "4">>

Agg3 == <<"1", "0", ".", "0", ".", "2", ".", "0", "/", "2", "3">>

Agg4 == <<"1", "0", ".", "0", ".", "0", ".", "0", "/", "2", "5">>

AggNets == {Agg1, Agg2, Agg3, Agg4}

\* the /25 blocks from 10.0.0.0 to 10.0.4.255
AggBlocks ==
    { [net |-> IPNetwork(Agg4).net + 128 * k, len |-> 25] : k \in 0..9 }

\* the blocks covered by a set of networks
blocks_of(S) == { b \in AggBlocks : \E p \in S : net_in(b, p) }

\* read_rtesrv has run: the session is connecting, on a new empty tree
SessStart ==
    /\ mytree = 1
    /\ mydict = NoDict
    /\ my_rte_srv = 0
    /\ ip_prob_cnt = 0
    /\ trees = << EmptyTree >>
    /\ tn = NewSession(1)
    /\ sent = << >>
    /\ ended = "none"
    /\ pc = "idle"
    /\ fetch = [u \in Urls |-> "idle"]
    /\ num_x = 0
    /\ num_wait = 0
    /\ inflight = EmptyBag
    /\ waitq = EmptyBag
    /\ wh = NoWhois
    /\ status = NoStatus
    /\ hist = InitHist
    /\ NoCalls
    /\ bodies = << << >>, << >> >>

InitSess ==
    /\ SessStart
    /\ rs_lines = {LinePrompt, LineMore} \cup {LineRoute(a) : a \in AggNets}

\* one line arrives in the session; an exception raised by the handler drops
\* the connection
SessLineReceived ==
    /\ tn.st = "connected"
    /\ \E tokens \in rs_lines :
        LET r == lineReceived(tn, trees[tn.Tree], sent, tokens) IN
        /\ Len(r.tn.my_addr_list) <= MaxList
        /\ tn' = IF r.raised THEN [r.tn EXCEPT !.st = "none"] ELSE r.tn
        /\ ended' = IF r.raised THEN "lost" ELSE ended
        /\ trees' = [trees EXCEPT ![tn.Tree] = r.tree]
        /\ sent' = r.sent
        /\ prompts' = IF r.sent # sent THEN 0
                      ELSE IF /\ tn.state_more
                              /\ Len(tokens) > 0
                              /\ endswith(tokens[Len(tokens)], prompt_cmd)
                      THEN prompts + 1
                      ELSE prompts
    /\ UNCHANGED << mytree, mydict, my_rte_srv, ip_prob_cnt, rs_lines,
                    cvars, pvars, regA, regB, regCalls, leftA, leftB, tvars, bd, srv >>

NextSess ==
    \/ clientConnectionFailed
    \/ connectionMade
    \/ SessLineReceived
    \/ connectionLost

SpecSess == InitSess /\ [][NextSess]_vars

\* a command is sent in answer to a command prompt
Advance == tn.st = "connected" /\ sent' # sent

\* the keys of the nodes of the tree t that carry the ASN v
keys_of(t, v) == { n.key : n \in { m \in t : m.value = v } }

\* L: the networks of the working list; N: the networks installed from it
Aggregated(lst, N) ==
    /\ blocks_of(N) = blocks_of({lst[i] : i \in 1..Len(lst)})
    /\ \A n \in N : \E i \in 1..Len(lst) : net_in(lst[i], n)
    /\ Cardinality(N) <= Len(lst)
    /\ \A p \in N, q \in N : p # q => ~net_in(q, p)
    /\ \A p \in N, q \in N :
          (p # q /\ p.len = q.len) => supernet(p) # supernet(q)

\* C27: the networks that build_send_rteserv_cmd installs for an ASN cover
\* the same addresses as the working list, are not more numerous than the
\* list, none of them is contained in another, and no two of them are the
\* two halves of a shorter prefix
C27_AggregatorCorrect ==
    [][ Advance =>
          Aggregated(tn.my_addr_list,
                     keys_of(trees'[tn.Tree], sent[Len(sent)].asn)) ]_vars

\* the three networks 10.0.0.0/24, 10.0.1.0/24 and 10.0.2.0/23 of the first
\* ASN have been installed as 10.0.0.0/22
C27_Witness ==
    /\ Len(sent) = 2
    /\ trees[tn.Tree] = {[key |-> supernet(IPNetwork(Agg3)), value |-> as_search_list[1]]}

\* C29: when the command that follows the list command of an ASN is sent
\* (the list command of the next ASN, or exit), every network of the working
\* list is inside a node of the tree tagged with the ASN just listed, every
\* node added by the step carries that tag, and the working list is empty
C29_InstalledBeforeNextCommand ==
    [][ Advance =>
          /\ \A i \in 1..Len(tn.my_addr_list) :
                \E n \in trees'[tn.Tree] :
                    /\ n.value = sent[Len(sent)].asn
                    /\ net_in(tn.my_addr_list[i], n.key)
          /\ \A n \in trees'[tn.Tree] \ trees[tn.Tree] :
                n.value = sent[Len(sent)].asn
          /\ tn'.my_addr_list = << >> ]_vars

\* the session has sent the two list commands and exit, and the tree holds
\* networks of the first ASN and networks of the second
C29_Witness ==
    /\ sent = << ListCmd(as_search_list[1]), ListCmd(as_search_list[2]), ExitCmd >>
    /\ tn.my_addr_list = << >>
    /\ keys_of(trees[tn.Tree], as_search_list[1]) # {}
    /\ keys_of(trees[tn.Tree], as_search_list[2]) # {}

\* C30: the command that follows a list command is sent upon the
\* rs_as_cmd_throttle-th command prompt received with state_more set since
\* the list command: not upon an earlier prompt, and not later
C30_PromptCountdown ==
    /\ [][ Advance => prompts + 1 = rs_as_cmd_throttle ]_vars
    /\ []((tn.st = "connected" /\ sent # << >> /\ sent[Len(sent)].cmd = "list")
            => prompts < rs_as_cmd_throttle)

(***************************************************************************)
(* Ingest cycles under a periodic timer that does not wait for the cycle   *)
(* before it                                                               *)
(***************************************************************************)

\* lookups of earlier cycles still pending when the timer fires
MaxPending == 2

\* the blocklist interval has elapsed while the cycle before is still
\* waiting for its DNS lookups: blklst_Main is called.  The callLater of the
\* earlier cycle's cymru_chk stays pending and is not followed here.
IngestTimerDue ==
    /\ pc = "dnswait"
    /\ BagCardinality(inflight) + BagCardinality(waitq) <= MaxPending
    /\ blklst_Main

InitOverlap ==
    /\ BuiltIndex
    /\ mydict = NoDict
    /\ ip_prob_cnt = 0
    /\ pc = "idle"
    /\ fetch = [u \in Urls |-> "idle"]
    /\ num_x = 0
    /\ num_wait = 0
    /\ inflight = EmptyBag
    /\ waitq = EmptyBag
    /\ wh = NoWhois
    /\ status = NoStatus
    /\ hist = InitHist
    /\ NoCalls
    /\ rs_lines = {}
    /\ \E p1 \in { <<LineHost>>, <<LineIp>> }, p2 \in { <<LineHost>>, << >> } :
         bodies = << p1, p2 >>

NextOverlap ==
    \/ IngestTimer
    \/ IngestTimerDue
    \/ blklst_page_read_ok
    \/ blklst_error
    \/ CymruChkPoll
    \/ lookup_done
    \/ lookup_err
    \/ whois_connectionFailed
    \/ whois_connectionMade
    \/ whois_lineReceived
    \/ whois_connectionLost

SpecOverlap == InitOverlap /\ [][NextOverlap]_vars

\* C28: the registry of a cycle is empty when the cycle's downloads start and
\* receives only what the cycle itself produces: as long as none of the
\* cycle's downloads has delivered a page, nothing has been merged into it,
\* a DNS resolution of an earlier cycle that completes by then included
C28_RegistryOfOneCycle ==
    (pc = "fetching" /\ \A u \in Urls : fetch[u] = "pending")
        => mydict = EmptyDict

\* the commands of a whole session: the list command of every monitored ASN
\* in the order of as_search_list, then exit
SessionCmds ==
    [i \in 1..(Len(as_search_list) + 1) |->
        IF i <= Len(as_search_list) THEN ListCmd(as_search_list[i]) ELSE ExitCmd]

\* C31: the commands a session has transmitted are the first commands of the
\* sequence "list command of each monitored ASN in the configured order, then
\* exit": the first is sent on connect, none is sent twice, none is skipped
\* or retried, and nothing follows exit whatever prompts arrive later
C31_CommandsOnceInOrder ==
    /\ Len(sent) <= Len(SessionCmds)
    /\ sent = SubSeq(SessionCmds, 1, Len(sent))
    /\ tn.st = "connected" => Len(sent) >= 1

\* exit has been sent after listings of which the first gave no prefix, and
\* command prompts that arrived after exit have ended the session
C31_Witness ==
    /\ sent = SessionCmds
    /\ keys_of(trees[tn.Tree], as_search_list[1]) = {}
    /\ keys_of(trees[tn.Tree], as_search_list[2]) # {}
    /\ ended = "lost"
    /\ prompts = rs_as_cmd_throttle + 1

(***************************************************************************)
(* A session with a route server that never pages its output               *)
(***************************************************************************)

\* the server answers with route lines and command prompts, never "--More--"
InitNoMore ==
    /\ SessStart
    /\ rs_lines = {LinePrompt} \cup {LineRoute(a) : a \in AggNets}

\* enterLoop sends "Enter" every rs_enter_throttle seconds and the server
\* answers each with a line: lines keep arriving while the session is open
FairSpecNoMore ==
    InitNoMore /\ [][NextSess]_vars /\ WF_vars(SessLineReceived)

\* C32: in a session whose server never sends "--More--" and keeps
\* answering with command prompts, the client advances through all the ASNs
\* and eventually sends exit (unless the connection ends first)
C32_ProgressWithoutPaging ==
    (tn.st = "connected")
        ~> (tn.st = "none" \/ (sent # << >> /\ sent[Len(sent)] = ExitCmd))

(***************************************************************************)
(* A tree that receives insert calls, also for keys it already holds       *)
(***************************************************************************)

\* mytree.insert(prefix, asn) with a prefix that is a key of the tree
TreeReinsert ==
    /\ \E n \in inserted, v \in TreeAsns :
          /\ v # n.value
          /\ root' = bbstree_insert(root, n.key, v)
          /\ inserted' = (inserted \ {n}) \cup {[key |-> n.key, value |-> v]}
    /\ UNCHANGED << bvars, svars, cvars, pvars, regA, regB, regCalls, leftA, leftB,
                    hvars >>

NextTreeIns == TreeInsert \/ TreeReinsert

SpecTreeIns == InitTree /\ [][NextTreeIns]_vars

\* the tree t with the value v in the node of the key k and every other node
\* as it is
RECURSIVE with_value(_, _, _)
with_value(t, k, v) ==
    IF t.level = 0 THEN t
    ELSE [t EXCEPT !.value = IF t.key = k THEN v ELSE @,
                   !.l = with_value(@, k, v),
                   !.r = with_value(@, k, v)]

\* the (prefix, ASN) pairs of the nodes of a tree
pairs_of(t) == { [key |-> n.key, value |-> n.value] : n \in nodes_of(t) }

\* C33: an insert of a prefix the tree holds, with another ASN, puts that
\* ASN in the node of the prefix and changes nothing else: the tree is the
\* tree before with the one value replaced (same nodes, same places, same
\* levels)
C33_ReinsertOverwrites ==
    [][ \A n \in inserted, m \in inserted' :
          (m.key = n.key /\ m.value # n.value) =>
              /\ root' = with_value(root, n.key, m.value)
              /\ Cardinality(nodes_of(root')) = Cardinality(nodes_of(root))
              /\ pairs_of(root') = (pairs_of(root) \ {n}) \cup {m} ]_vars

\* a prefix below the root of a tree of all the prefixes carries the second
\* ASN after it was inserted with the first
C33_Witness ==
    /\ Cardinality(inserted) = MaxPrefixes
    /\ \E n \in nodes_of(root) :
          /\ n.key # root.key
          /\ n.value = as_search_list[2]
          /\ \A m \in nodes_of(root) : m.key # n.key => m.value = as_search_list[1]

(***************************************************************************)
(* A session that receives route lines of every form                       *)
(***************************************************************************)

RouteMark == <<"*", ">">>

RouteHost == <<"1", "0", ".", "0", ".", "0", ".", "1">>

\* route lines with a prefix: plain, with a leading "i", without ">"
RoutePlain == << RouteMark, Agg1, <<"0">> >>

RouteInternal == << RouteMark, <<"i">> \o Agg2, <<"0">> >>

RouteShort == << <<"*">>, Agg3 >>

RouteHalf == << RouteMark, Agg4 >>

\* route lines without a prefix: a bare address, a /32, a token that is no
\* address, a lone "i", and a line of the route marker alone
RouteBare == << RouteMark, RouteHost, <<"0">> >>

RouteSingle == << RouteMark, RouteHost \o <<"/", "3", "2">> >>

RouteJunk == << RouteMark, <<"x", ".", "y">> >>

RouteRepeat == << <<"*">>, <<"i">>, RouteHost >>

RouteAlone == << RouteMark >>

RouteLines ==
    { RoutePlain, RouteInternal, RouteShort, RouteHalf,
      RouteBare, RouteSingle, RouteJunk, RouteRepeat, RouteAlone }

\* the prefix each line carries, written out: 10.0.0.0/24, 10.0.1.0/24,
\* 10.0.2.0/23, 10.0.0.0/25; no prefix for the other lines
RoutePrefix(tokens) ==
    IF tokens = RoutePlain THEN << [net |-> 167772160, len |-> 24] >>
    ELSE IF tokens = RouteInternal THEN << [net |-> 167772416, len |-> 24] >>
    ELSE IF tokens = RouteShort THEN << [net |-> 167772672, len |-> 23] >>
    ELSE IF tokens = RouteHalf THEN << [net |-> 167772160, len |-> 25] >>
    ELSE << >>

InitRoute ==
    /\ SessStart
    /\ rs_lines = RouteLines

SpecRoute == InitRoute /\ [][NextSess]_vars

\* C34: for every line whose first token starts with "*", lineReceived
\* appends the prefix of the line once to the working list when the second
\* token (less one leading "i") is an IPv4 prefix shorter than /32, leaves
\* the list as it is in every other case, and lets no error escape
C34_RouteLineHandling ==
    (tn.st = "connected" /\ Len(tn.my_addr_list) < MaxList) =>
        \A tokens \in rs_lines :
            \A r \in {lineReceived(tn, trees[tn.Tree], sent, tokens)} :
                startswith(tokens[1], valid_route) =>
                    /\ ~r.raised
                    /\ r.tn.my_addr_list = tn.my_addr_list \o RoutePrefix(tokens)

(***************************************************************************)
(* A tree that receives insert and delete calls                            *)
(***************************************************************************)

\* mytree.delete(prefix), for a prefix the tree holds or does not hold
TreeDelete ==
    /\ \E k \in TreePrefixes :
          /\ root' = bbstree_delete(root, k)
          /\ inserted' = { n \in inserted : n.key # k }
    /\ UNCHANGED << bvars, svars, cvars, pvars, regA, regB, regCalls, leftA, leftB,
                    hvars >>

NextTreeOps == TreeInsert \/ TreeDelete

SpecTreeOps == InitTree /\ [][NextTreeOps]_vars

\* the number of nodes on the longest path from the node t down
RECURSIVE depth(_)
depth(t) ==
    IF t.level = 0 THEN 0
    ELSE 1 + (IF depth(t.l) >= depth(t.r) THEN depth(t.l) ELSE depth(t.r))

\* the level rules of the tree at the node n
LevelRules(n) ==
    /\ (n.l.level = 0 /\ n.r.level = 0) => n.level = 1
    /\ n.l.level = n.level - 1
    /\ n.r.level \in {n.level, n.level - 1}
    /\ subs(n.r, TRUE).level < n.level

MaxStream == 4

StreamChars == {"a", CR, LF}

InitStream ==
    /\ InitProgram
    /\ rs_lines = {}
    /\ bodies = << << >>, << >> >>
    /\ regA = EmptyDict
    /\ regB = EmptyDict
    /\ regCalls = << >>
    /\ leftA = {}
    /\ leftB = {}
    /\ NoTree
    /\ prompts = 0
    /\ srv = NoServer
    /\ \E n \in 0..MaxStream : \E s \in [1..n -> StreamChars] :
          bd = [rest |-> s, buffer |-> << >>, lines |-> << >>, stream |-> s]

\* the next chunk of the data arrives: BulkDataProtocol.dataReceived
ChunkReceived ==
    /\ \E n \in 1..Len(bd.rest) :
          bd' = [dataReceived(bd, SubSeq(bd.rest, 1, n))
                    EXCEPT !.rest = SubSeq(bd.rest, n + 1, Len(bd.rest))]
    /\ UNCHANGED << bvars, svars, cvars, pvars, regA, regB, regCalls, leftA, leftB,
                    tvars, prompts, srv >>

NextStream == ChunkReceived

SpecStream == InitStream /\ [][NextStream]_vars

\* C36: when all the data of a connection has arrived, in whatever chunks,
\* the lines handed to lineReceived (and so to updt_whois) and the rest kept
\* in the buffer are those of the same data arriving in one chunk
C36_ChunkingIndependent ==
    bd.rest = << >> =>
        \A whole \in {dataReceived([NoStream EXCEPT !.stream = bd.stream], bd.stream)} :
            /\ bd.lines = whole.lines
            /\ bd.buffer = whole.buffer

(***************************************************************************)
(* The program from its start, with a blocklist line that leaves a key     *)
(* that is no address in the registry                                      *)
(***************************************************************************)

InitStart ==
    /\ InitProgram
    /\ NoCalls
    /\ rs_lines = {LinePrompt, LineMore, LineRoute(Net1)}
    /\ bodies = << <<LineUrlPort, LineIp>>, <<LineHost>> >>

SpecStart == InitStart /\ [][Next]_vars

\* the strings that are looked up: addresses and a key that is no address
LookedUp == {sanity_ip, IpDns, IpOther, IpPort}

MaxNest == 7

\* the k-th prefix and the ASN that announces it
NestEntry(k) ==
    IF k % 2 = 1
    THEN [key |-> IPNetwork(<<"1", ".", "0", ".">> \o dec(8 * (k \div 2))
                              \o <<".", "0", "/", "2", "2">>),
          value |-> <<"7">>]
    ELSE [key |-> IPNetwork(<<"1", ".", "0", ".">> \o dec(8 * (k \div 2) - 7)
                              \o <<".", "0", "/", "2", "4">>),
          value |-> <<"7", "1">>]

NestEntries == { NestEntry(k) : k \in 1..MaxNest }

\* addresses in and around every /22
NestProbes ==
    { <<"1", ".", "0", ".">> \o dec(8 * j + i) \o <<".", "5">> :
        j \in 0..(MaxNest \div 2), i \in 0..4 }

\* mytree.insert(prefix, asn) for a prefix of the list of either ASN
NestInsert ==
    /\ \E e \in NestEntries :
          /\ e \notin inserted
          /\ root' = bbstree_insert(root, e.key, e.value)
          /\ inserted' = inserted \cup {e}
    /\ UNCHANGED << bvars, svars, cvars, pvars, regA, regB, regCalls, leftA, leftB,
                    hvars >>

NextNest == NestInsert

SpecNest == InitTree /\ [][NextNest]_vars

\* C38: in an index built from the aggregated lists of several ASNs, whose
\* prefixes may nest, chk_ip finds a node for every address that lies in at
\* least one inserted prefix, whatever the order of the insertions
C38_NestedCoverage ==
    \A x \in NestProbes :
        (\E n \in inserted : net_in(IPNetwork(x), n.key))
            => bbstree_chk_ip(root, IPNetwork(x)) # {}

(***************************************************************************)
(* One session with a route server that answers the commands in their      *)
(* order, while the prompts caused by enterLoop arrive at any time         *)
(***************************************************************************)

\* the networks the route server lists for an ASN
SrvRoutes(asn) ==
    IF asn = as_search_list[1] THEN << Agg1, Agg3 >> ELSE << Agg2 >>

\* the server with the next command taken up, when the listing of the
\* command before is complete and a command waits
srv_next(s, out) ==
    IF s.left = << >> /\ s.cur < Len(out) /\ out[s.cur + 1].cmd = "list"
    THEN [s EXCEPT !.cur = @ + 1, !.left = SrvRoutes(out[s.cur + 1].asn)]
    ELSE s

InitNudge ==
    /\ SessStart
    /\ rs_lines = {LinePrompt, LineMore}

\* the next route line of the listing in progress arrives
NudgeRouteReceived ==
    /\ tn.st = "connected"
    /\ \E s \in {srv_next(srv, sent)} :
        /\ s.left # << >>
        /\ LET r == lineReceived(tn, trees[tn.Tree], sent, LineRoute(Head(s.left))) IN
           /\ tn' = IF r.raised THEN [r.tn EXCEPT !.st = "none"] ELSE r.tn
           /\ ended' = IF r.raised THEN "lost" ELSE ended
           /\ trees' = [trees EXCEPT ![tn.Tree] = r.tree]
           /\ sent' = r.sent
           /\ srv' = [s EXCEPT !.left = Tail(@),
                               !.got = @ \cup {[net |-> IPNetwork(Head(s.left)),
                                                asn |-> sent[s.cur].asn]}]
    /\ UNCHANGED << mytree, mydict, my_rte_srv, ip_prob_cnt, rs_lines,
                    cvars, pvars, regA, regB, regCalls, leftA, leftB, tvars,
                    bd, prompts >>

\* the server has sent a part of a listing and has more of it to send
Paging ==
    \E s \in {srv_next(srv, sent)} :
        /\ s.left # << >>
        /\ Len(s.left) < Len(SrvRoutes(sent[s.cur].asn))

\* a "--More--" arrives at the end of a page of a listing, or a command
\* prompt arrives: the prompt that ends a listing, or the answer to the " "
\* that enterLoop has sent
NudgePromptReceived ==
    /\ tn.st = "connected"
    /\ \E tokens \in rs_lines :
        LET r == lineReceived(tn, trees[tn.Tree], sent, tokens) IN
        /\ tokens = LineMore => Paging
        /\ tn' = IF r.raised THEN [r.tn EXCEPT !.st = "none"] ELSE r.tn
        /\ ended' = IF r.raised THEN "lost" ELSE ended
        /\ trees' = [trees EXCEPT ![tn.Tree] = r.tree]
        /\ sent' = r.sent
    /\ UNCHANGED << mytree, mydict, my_rte_srv, ip_prob_cnt, rs_lines,
                    cvars, pvars, regA, regB, regCalls, leftA, leftB, tvars,
                    hvars >>

NextNudge ==
    \/ clientConnectionFailed
    \/ connectionMade
    \/ NudgeRouteReceived
    \/ NudgePromptReceived
    \/ connectionLost

SpecNudge == InitNudge /\ [][NextNudge]_vars

\* C39: every prefix installed in the index under an ASN is made of networks
\* received in route lines that the server produced in answer to the list
\* command of that ASN, however the command prompts interleave with the
\* listing
C39_InstalledUnderListedAsn ==
    \A n \in trees[tn.Tree] :
        blocks_of({n.key})
          \subseteq blocks_of({g.net : g \in {h \in srv.got : h.asn = n.value}})

(***************************************************************************)
(* The ASN pointer of a session                                            *)
(***************************************************************************)

\* exit is the last command sent
ExitSent == sent # << >> /\ sent[Len(sent)] = ExitCmd

\* the ASN pointer is -1 before the first command and at most
\* len(as_search_list)
AsPtrInRange == tn.as_ptr \in -1..Len(as_search_list)

\* the ASN read by an advance is the one of the list command sent last
TagOfLastCommand ==
    [][ (Advance /\ sent # << >>)
          => py_index(as_search_list, tn.as_ptr) = sent[Len(sent)].asn ]_vars

\* once exit is sent nothing is put in the index
NoInsertAfterExit == [][ ExitSent => trees' = trees ]_vars

\* a command prompt that arrives makes no read outside as_search_list
PromptReadsInRange ==
    tn.st = "connected"
        => ~lineReceived(tn, trees[tn.Tree], sent, LinePrompt).raised

\* C40: in every state of a session the ASN pointer is within
\* -1 .. len(as_search_list); when build_send_rteserv_cmd reads
\* as_search_list[as_ptr] the pointer designates the ASN whose list command
\* was sent last; the command prompts that arrive after exit was sent cause
\* no read out of range and no insertion in the index
C40_AsPtrInRange ==
    /\ []AsPtrInRange
    /\ TagOfLastCommand
    /\ NoInsertAfterExit
    /\ []PromptReadsInRange

====
